---- MODULE Spec2Model ----
(***************************************************************************)
(* Backup orchestration, retention and scheduling of serverMonitor.        *)
(*                                                                         *)
(* Every asynchronous method of BackupService is modelled as a task whose  *)
(* steps are the completions of its awaits: the code between two awaits    *)
(* runs to completion on the event loop and is one atomic step.  The       *)
(* filesystem is the set of application directories under the backup root  *)
(* and the set of artifact files in them.  Time is a clock counted in      *)
(* days, the unit of the retention window.                                 *)
(***************************************************************************)
EXTENDS Integers, Sequences, FiniteSets, TLC

(***************************************************************************)
(* Bounds of the model.                                                    *)
(***************************************************************************)
MaxTime == 2
MaxFiles == 2
MaxStored == 3
MaxTriggerFiles == 2
MaxRetentionArg == 1
MaxHandles == 2

(***************************************************************************)
(* Process-wide configuration (config.backup).                             *)
(***************************************************************************)
DefaultRetentionDays == 7
DefaultSchedule == "0 2 * * *"

(***************************************************************************)
(* The application roster (config.applications): a monitoring-only         *)
(* application, one per supported engine, and one with an engine the       *)
(* service does not know.  A descriptor field the roster omits is absent   *)
(* from the record, as an omitted JSON property is undefined.              *)
(***************************************************************************)
Applications ==
    << [name |-> "web"],
       [name |-> "shop",
        database |-> [type |-> "postgresql", container |-> "shop-db",
                      database |-> "shopdb", username |-> "shopuser",
                      password |-> "shoppw", retentionDays |-> 1,
                      backupSchedule |-> "0 3 * * *"]],
       [name |-> "legacy",
        database |-> [type |-> "oracle", container |-> "legacy-db",
                      database |-> "legacydb", username |-> "system",
                      password |-> "legacypw",
                      backupSchedule |-> "every night"]],
       [name |-> "blog",
        database |-> [type |-> "MySQL", container |-> "blog-db",
                      database |-> "blogdb", username |-> "bloguser",
                      password |-> "blogpw"]],
       [name |-> "cache",
        database |-> [type |-> "mongodb", container |-> "cache-db",
                      database |-> "cachedb", retentionDays |-> -1,
                      backupSchedule |-> "0 3 * * *"]],
       [name |-> "wiki",
        database |-> [type |-> "PostgreSQL", container |-> "wiki-db",
                      database |-> "wikidb", username |-> "wikiuser",
                      password |-> "wikipw", retentionDays |-> 0]] >>

RosterNames == {Applications[i].name : i \in DOMAIN Applications}
\* Names a caller may pass: every roster name and one that is not in the roster.
CallNames == RosterNames \cup {"ghost"}

\* Task slots: routes use the first, trigger callbacks any free one.
Tasks == {"t1", "t2"}
RouteTasks == {"t1"}

(***************************************************************************)
(* Pure helpers of the service.                                            *)
(***************************************************************************)
\* config.applications.find((a) => a.name === appName): index of the first
\* match, 0 when there is none.
FindApp(name) ==
    IF \E i \in DOMAIN Applications : Applications[i].name = name
    THEN CHOOSE i \in DOMAIN Applications :
            /\ Applications[i].name = name
            /\ \A j \in 1..(i - 1) : Applications[j].name # name
    ELSE 0

HasDatabase(app) == "database" \in DOMAIN app

\* String.prototype.toLowerCase on the engine kinds of the roster.
ToLowerCase(s) ==
    CASE s = "MySQL" -> "mysql"
      [] s = "PostgreSQL" -> "postgresql"
      [] s = "MongoDB" -> "mongodb"
      [] OTHER -> s

\* The switch with a default branch that dumps as SQL.
EngineSuffixDefaultSql(type) ==
    CASE ToLowerCase(type) = "mongodb" -> "archive.gz"
      [] OTHER -> "sql.gz"

\* The switch on the engine kind: the suffix of the artifact, "" for the
\* default branch (unsupported).
EngineSuffix(type) ==
    CASE ToLowerCase(type) = "postgresql" -> "sql.gz"
      [] ToLowerCase(type) = "mysql" -> "sql.gz"
      [] ToLowerCase(type) = "mongodb" -> "archive.gz"
      [] OTHER -> ""

\* The guards without the test of the database descriptor.
CheckApplicationNoDb(name) ==
    IF FindApp(name) = 0 THEN "ApplicationNotFound" ELSE "ok"

\* The guards without the test that the roster lookup found something.
CheckApplicationNoFind(name) ==
    IF FindApp(name) = 0 THEN "ok"
    ELSE IF ~HasDatabase(Applications[FindApp(name)]) THEN "NoDatabaseConfigured"
    ELSE "ok"

\* The guards at the head of createBackup.
CheckApplication(name) ==
    IF FindApp(name) = 0 THEN "ApplicationNotFound"
    ELSE IF ~HasDatabase(Applications[FindApp(name)]) THEN "NoDatabaseConfigured"
    ELSE "ok"

\* app.database.type, total so that a descriptor-less application reads "".
EngineOf(name) ==
    IF FindApp(name) # 0 /\ HasDatabase(Applications[FindApp(name)])
    THEN Applications[FindApp(name)].database.type
    ELSE ""

\* app.database.retentionDays || config.backup.defaultRetentionDays:
\* undefined and 0 are falsy.
RetentionOf(name) ==
    LET db == Applications[FindApp(name)].database
    IN  IF "retentionDays" \in DOMAIN db /\ db.retentionDays # 0
        THEN db.retentionDays
        ELSE DefaultRetentionDays

\* The emptiness test is missing: no size is empty.
IsEmptyNever(size) == FALSE

\* stats.size === 0
IsEmpty(size) == size = 0

\* The comparison with <= in place of <.
ExpiredInclusive(created, cutoff) == created <= cutoff

\* backup.created < cutoffDate
Expired(created, cutoff) == created < cutoff

\* cutoffDate = new Date(); cutoffDate.setDate(cutoffDate.getDate() - retentionDays)
Cutoff(now, retentionDays) == now - retentionDays

(***************************************************************************)
(* State.                                                                  *)
(***************************************************************************)
VARIABLES
    clock,      \* the current instant, in days
    rootDir,    \* whether the backup root directory exists
    dirs,       \* names of the application directories under the root
    files,      \* artifact files: [app, stamp, ext, created, size]
    tasks,      \* the asynchronous calls in progress, by task slot
    jobs,       \* Scheduler.jobs: <<[application, schedule, job]>>
    handles,    \* the cron tasks created so far: <<[app, schedule, running]>>
    lastCall,   \* the last call made to the scheduler, and whether it threw
    roster,     \* config.applications as the container monitor reads it
    docker,     \* the getContainers call in progress and what it settled with
    millis,     \* Date.now() of the monitors, in milliseconds
    previousStats,  \* NetworkMonitor.previousStats, by interface name
    polls,      \* the getNetworkStats calls in progress, by slot
    cachedData  \* cachedData of the container and of the network monitor

monitorVars == <<roster, docker, millis, previousStats, polls, cachedData>>
vars == <<clock, rootDir, dirs, files, tasks, jobs, handles, lastCall,
          roster, docker, millis, previousStats, polls, cachedData>>

NoPath == [app |-> "", stamp |-> 0, ext |-> ""]
PathOf(f) == [app |-> f.app, stamp |-> f.stamp, ext |-> f.ext]
Exists(p) == \E f \in files : PathOf(f) = p
FileAt(p) == CHOOSE f \in files : PathOf(f) = p
DirFiles(name) == {f \in files : f.app = name}

NoResult == [success |-> FALSE, application |-> "", error |-> "none",
             file |-> NoPath, size |-> 0]
Failure(name, kind) == [success |-> FALSE, application |-> name, error |-> kind,
                        file |-> NoPath, size |-> 0]
Success(name, p, sz) == [success |-> TRUE, application |-> name, error |-> "none",
                         file |-> p, size |-> sz]

\* No earlier cleanup / the cutoff and count of the call just before this one.
NoPrev == [set |-> FALSE, cutoff |-> 0, deleted |-> 0]

\* A free task slot.  op/arg: the call and its argument; app, stamp, ext: the
\* locals of createBackup; names, backups, i: the listing and the loop index;
\* retention, now, cutoff, deleted: the locals of cleanupOldBackups; results:
\* the list createAllBackups builds; result: what the call settled with; fx:
\* what the current createBackup/cleanup/restore invocation has done so far;
\* before: the files when the cleanup was entered; prev: the cleanup this
\* call repeats; cmd: the command line built for execAsync, as words; apps:
\* the entries of the backup root that listBackups() walks, at index idx.
IdleTask ==
    [op |-> "none", arg |-> "", pc |-> "idle", app |-> "", idx |-> 0,
     stamp |-> 0, ext |-> "", names |-> << >>, backups |-> << >>, i |-> 0,
     size |-> 0, retention |-> 0, now |-> 0, cutoff |-> 0, deleted |-> 0,
     before |-> {}, results |-> << >>, result |-> NoResult, fx |-> {},
     prev |-> NoPrev, cmd |-> << >>, apps |-> << >>]

NoCall == [op |-> "none", app |-> "", threw |-> FALSE]

(***************************************************************************)
(* State of the monitors.  A name is a sequence of characters, so that     *)
(* includes and replace are computed on it.  A number that a division      *)
(* produced is a ratio num/den: den = 0 is what IEEE division by zero      *)
(* gives, NaN for 0/0 and an infinity otherwise.                           *)
(***************************************************************************)
MaxApps == 2
MaxOwned == 1
MaxFragment == 2
MaxName == 3
MaxContainers == 2
MaxPolls == 1
MaxMillis == 4000

Letters == {"a", "b"}
Slash == "/"
StringsUpTo(S, n) == UNION {[1..k -> S] : k \in 0..n}
\* Container-name fragments and database container names of a roster.
Fragments == StringsUpTo(Letters, MaxFragment)
\* Names the container runtime may report (container.Names[0]).
RawNames == StringsUpTo(Letters \cup {Slash}, MaxName)

\* The unique keys of the roster, by position.
AppName(i) ==
    CASE i = 1 -> "app1"
      [] i = 2 -> "app2"
      [] i = 3 -> "app3"
      [] OTHER -> "app4"

\* The descriptors an application may have at position i: its ordered list
\* of fragments and, optionally, a database descriptor with its container.
Descriptors(i) ==
    LET owned == UNION {[1..k -> Fragments] : k \in 0..MaxOwned}
    IN  {[name |-> AppName(i), containers |-> cs] : cs \in owned}
            \cup {[name |-> AppName(i), containers |-> cs,
                   database |-> [container |-> d]] :
                        cs \in owned, d \in Fragments}

\* Every roster of at most n applications.
Rosters(n) ==
    UNION {{r \in [1..k -> UNION {Descriptors(i) : i \in 1..k}] :
                \A i \in 1..k : r[i] \in Descriptors(i)} : k \in 0..n}

\* The roster of the polls: two applications with overlapping fragments, the
\* second with a database container.
DefaultRoster ==
    << [name |-> "app1", containers |-> << <<"a">> >>],
       [name |-> "app2", containers |-> << <<"a", "b">> >>,
        database |-> [container |-> <<"b">>]] >>

\* What the runtime lists in a poll, and the names a poll may list.
PollNames == {<<Slash, "a">>, <<Slash, "a", "b">>, <<Slash, "b">>, <<Slash>>}
Listings == UNION {[1..k -> PollNames] : k \in 0..MaxContainers}

\* The counters of a stats response: cpu_stats and precpu_stats.
CpuTotals == {100, 200}
SystemUsages == {1000, 1200}
OnlineCpus == {4}
Samples ==
    [total_usage : CpuTotals, pre_total_usage : CpuTotals,
     system_cpu_usage : SystemUsages, pre_system_cpu_usage : SystemUsages,
     online_cpus : OnlineCpus]
NoStats == [total_usage |-> 0, pre_total_usage |-> 0, system_cpu_usage |-> 0,
            pre_system_cpu_usage |-> 0, online_cpus |-> 0]

Rat(n) == [num |-> n, den |-> 1]

\* The mapper of one listed container: where it is, its locals stats and
\* cpuPercent, the error its catch block caught (the fetch that failed), and
\* the record it settled with.
NoRecord == [name |-> << >>, application |-> "", cpuPercent |-> Rat(0),
             error |-> "none"]
Mapper(raw) == [pc |-> "stats", raw |-> raw, stats |-> NoStats,
                cpuPercent |-> Rat(0), error |-> "none", record |-> NoRecord]

\* No getContainers call yet.  polled: the calls made so far; resolved: the
\* last direct call of findApplicationForContainer, what it returned ("" for
\* null) and the application a record gets from it.
NoResolved == [called |-> FALSE, containerName |-> << >>, returned |-> "",
               application |-> ""]
IdleDocker == [pc |-> "idle", details |-> << >>, result |-> << >>,
               threw |-> FALSE, polled |-> 0, resolved |-> NoResolved]
\* cachedData of a monitor before its first poll.
NoCache == [data |-> << >>, lastUpdate |-> 0]

\* The interfaces of the host, in the order systeminformation reports them.
Interfaces == <<"eth0", "lo">>
InterfaceNames == {Interfaces[i] : i \in DOMAIN Interfaces}
\* The cumulative counters a reading may carry: received bytes, and the
\* transmitted bytes of a host that sends nothing.
ByteCounts == {0, 1000}
SentCounts == {0}
TickMillis == 1000
NoSample == [set |-> FALSE, rx_bytes |-> 0, tx_bytes |-> 0, timestamp |-> 0]
NetTasks == {"n1", "n2"}
IdlePoll == [pc |-> "idle", started |-> 0, threw |-> FALSE, interfaces |-> << >>]

\* The monitors after construction, apart from the roster.
MonitorIdle ==
    /\ docker = IdleDocker
    /\ millis = 0
    /\ previousStats = [i \in InterfaceNames |-> NoSample]
    /\ polls = [n \in NetTasks |-> IdlePoll]
    /\ cachedData = [docker |-> NoCache, network |-> NoCache]

MonitorInit ==
    /\ roster = DefaultRoster
    /\ MonitorIdle

Init ==
    /\ clock = 0
    /\ rootDir \in BOOLEAN
    /\ dirs = {}
    /\ files = {}
    /\ tasks = [t \in Tasks |-> IdleTask]
    /\ jobs = << >>
    /\ handles = << >>
    /\ lastCall = NoCall
    /\ MonitorInit


(***************************************************************************)
(* listBackups: the sort of the listing.                                   *)
(***************************************************************************)
\* All orders in which readdir may return the entries of a directory.
Orders(S) ==
    {s \in [1..Cardinality(S) -> S] :
        \A a, b \in 1..Cardinality(S) : a # b => s[a] # s[b]}

\* e placed behind every entry that is not older than it.
InsertDesc(s, e) ==
    LET older == {k \in 1..Len(s) : s[k].created < e.created}
        at == IF older = {} THEN Len(s) + 1
              ELSE CHOOSE k \in older : \A m \in older : k <= m
    IN  SubSeq(s, 1, at - 1) \o <<e>> \o SubSeq(s, at, Len(s))

\* The listing returned in the order it was collected.
SortKeepOrder(s) == s

RECURSIVE SortDescending(_)
\* backups.sort((a, b) => b.created - a.created), a stable sort.
SortDescending(s) ==
    IF s = << >> THEN << >>
    ELSE InsertDesc(SortDescending(SubSeq(s, 1, Len(s) - 1)), s[Len(s)])

\* The first index from k on whose entry is older than the cutoff, 0 if none.
NextExpired(list, k, cutoff) ==
    LET hit == {j \in k..Len(list) : Expired(list[j].created, cutoff)}
    IN  IF hit = {} THEN 0 ELSE CHOOSE j \in hit : \A m \in hit : j <= m

(***************************************************************************)
(* createAllBackups: the roster loop.                                      *)
(***************************************************************************)
\* The loop without the test of the database descriptor.
NextApp(i) == IF i < Len(Applications) THEN i + 1 ELSE 0

\* The loop taking the applications from the end of the roster.
NextDatabaseAppLast(i) ==
    LET rest == {j \in DOMAIN Applications :
                    /\ HasDatabase(Applications[j])
                    /\ IF i = 0 THEN TRUE ELSE j < i}
    IN  IF rest = {} THEN 0 ELSE CHOOSE j \in rest : \A m \in rest : j >= m

\* The next roster index after i whose application has a database
\* descriptor, 0 when the loop is over.
NextDatabaseApp(i) ==
    LET rest == {j \in DOMAIN Applications : j > i /\ HasDatabase(Applications[j])}
    IN  IF rest = {} THEN 0 ELSE CHOOSE j \in rest : \A m \in rest : j <= m

RECURSIVE Settle(_, _)
\* createBackup(name) up to its first await: the roster lookup, the two
\* guards, the timestamp and the mkdir it issues.
EnterCreateBackup(tk, name) ==
    LET in == [tk EXCEPT !.app = name, !.fx = {}, !.ext = "", !.names = << >>,
                         !.backups = << >>, !.i = 0, !.deleted = 0,
                         !.cmd = << >>]
    IN  IF CheckApplication(name) # "ok"
        THEN Settle(in, Failure(name, CheckApplication(name)))
        ELSE [in EXCEPT !.stamp = clock, !.pc = "cb_mkdir"]

\* The promise of createBackup settles with res.  Inside createAllBackups
\* the loop pushes the entry and, in the same turn of the event loop, calls
\* createBackup for the next application with a database descriptor; a
\* single call and a trigger callback end here.
Settle(tk, res) ==
    IF tk.op = "createAll"
    THEN LET rs == Append(tk.results, res)
             j == NextDatabaseApp(tk.idx)
         IN  IF j = 0
             THEN [tk EXCEPT !.results = rs, !.pc = "done",
                             !.result = [NoResult EXCEPT !.success = TRUE]]
             ELSE EnterCreateBackup([tk EXCEPT !.results = rs, !.idx = j],
                                    Applications[j].name)
    ELSE [tk EXCEPT !.pc = "done", !.result = res]

ArtifactPath(tk) == [app |-> tk.app, stamp |-> tk.stamp, ext |-> tk.ext]

\* cleanupOldBackups returned its count / threw.
CleanupReturn(tk) ==
    IF tk.op = "cleanup"
    THEN [tk EXCEPT !.pc = "done",
                    !.result = [NoResult EXCEPT !.success = TRUE, !.application = tk.app]]
    ELSE Settle(tk, Success(tk.app, ArtifactPath(tk), tk.size))

CleanupThrow(tk) ==
    IF tk.op = "cleanup"
    THEN [tk EXCEPT !.pc = "done", !.result = Failure(tk.app, "FilesystemFailure")]
    ELSE Settle(tk, Failure(tk.app, "FilesystemFailure"))

\* The deletion loop stops after the first deletion.
ScanFromOnce(tk, k) ==
    IF k > 1 \/ NextExpired(tk.backups, k, tk.cutoff) = 0
    THEN CleanupReturn(tk)
    ELSE [tk EXCEPT !.pc = "cl_unlink", !.i = NextExpired(tk.backups, k, tk.cutoff)]

\* The deletion loop from index k: it runs on without suspending to the next
\* expired entry, whose unlink it awaits, or to the end.
ScanFrom(tk, k) ==
    IF NextExpired(tk.backups, k, tk.cutoff) = 0
    THEN CleanupReturn(tk)
    ELSE [tk EXCEPT !.pc = "cl_unlink", !.i = NextExpired(tk.backups, k, tk.cutoff)]

\* The entry listBackups pushes for file f found in the directory of label.
Entry(label, f) ==
    [application |-> label, filename |-> [stamp |-> f.stamp, ext |-> f.ext],
     path |-> PathOf(f), size |-> f.size, created |-> f.created]

\* listBackups returns the sorted list to a caller that takes it as the result.
ListReturn(tk, list) ==
    [tk EXCEPT !.pc = "done", !.backups = SortDescending(list),
               !.result = [NoResult EXCEPT !.success = TRUE, !.application = tk.arg]]

\* A catch block of listBackups that throws the error on.
ListRethrow(tk) ==
    [tk EXCEPT !.pc = "done", !.backups = << >>,
               !.result = Failure(tk.arg, "FilesystemFailure")]

\* A catch block of listBackups: return [].
ListCatch(tk) ==
    [tk EXCEPT !.pc = "done", !.backups = << >>,
               !.result = [NoResult EXCEPT !.success = TRUE, !.application = tk.arg]]

\* listBackups(appName) returned list: a direct caller takes it;
\* cleanupOldBackups computes the cutoff and starts deleting.
AfterList(tk, list) ==
    IF tk.op = "list"
    THEN ListReturn(tk, list)
    ELSE ScanFrom([tk EXCEPT !.backups = SortDescending(list), !.now = clock,
                             !.cutoff = Cutoff(clock, tk.retention)], 1)

\* The readdir or a stat of listBackups(appName) threw: the inner catch
\* returns [] without sorting.
ListFailed(tk) ==
    IF tk.op = "list" THEN ListCatch(tk) ELSE AfterList(tk, << >>)

\* cleanupOldBackups(name, d) up to its first await, the readdir of listBackups.
EnterCleanup(tk, name, d) ==
    [tk EXCEPT !.app = name, !.retention = d, !.pc = "cl_readdir",
               !.names = << >>, !.backups = << >>, !.i = 0, !.deleted = 0,
               !.before = files, !.fx = tk.fx \cup {"cleanup"}]


(***************************************************************************)
(* The command lines.  A command is the sequence of the words of the       *)
(* template string; a word is a literal, an interpolated value, a flag     *)
(* with a value glued to it (-p${password}) or a file path.                *)
(***************************************************************************)
Word(s) == [flag |-> "", text |-> s, path |-> NoPath]
Glued(f, s) == [flag |-> f, text |-> s, path |-> NoPath]
File(p) == [flag |-> "", text |-> "", path |-> p]

\* ${db.field} in a template string: the value, "undefined" when the
\* descriptor omits the field.
Interpolate(db, field) == IF field \in DOMAIN db THEN db[field] ELSE "undefined"

GetPostgreSQLBackupCommand(app, backupFile) ==
    << Word("docker"), Word("exec"), Word(Interpolate(app.database, "container")),
       Word("pg_dump"), Word("-U"), Word(Interpolate(app.database, "username")),
       Word(Interpolate(app.database, "database")),
       Word("|"), Word("gzip"), Word(">"), File(backupFile) >>

GetMySQLBackupCommand(app, backupFile) ==
    << Word("docker"), Word("exec"), Word(Interpolate(app.database, "container")),
       Word("mysqldump"), Word("-u"), Word(Interpolate(app.database, "username")),
       Glued("-p", Interpolate(app.database, "password")),
       Word(Interpolate(app.database, "database")),
       Word("|"), Word("gzip"), Word(">"), File(backupFile) >>

\* The MongoDB command without the --db option.
GetMongoDBBackupCommandAllDbs(app, backupFile) ==
    << Word("docker"), Word("exec"), Word(Interpolate(app.database, "container")),
       Word("mongodump"), Word("--archive"),
       Word("|"), Word("gzip"), Word(">"), File(backupFile) >>

GetMongoDBBackupCommand(app, backupFile) ==
    << Word("docker"), Word("exec"), Word(Interpolate(app.database, "container")),
       Word("mongodump"), Word("--db"), Word(Interpolate(app.database, "database")),
       Word("--archive"),
       Word("|"), Word("gzip"), Word(">"), File(backupFile) >>

\* The switch of createBackup: the command of the engine kind, << >> for
\* the default branch.
BackupCommand(app, backupFile) ==
    CASE ToLowerCase(app.database.type) = "postgresql" ->
            GetPostgreSQLBackupCommand(app, backupFile)
      [] ToLowerCase(app.database.type) = "mysql" ->
            GetMySQLBackupCommand(app, backupFile)
      [] ToLowerCase(app.database.type) = "mongodb" ->
            GetMongoDBBackupCommand(app, backupFile)
      [] OTHER -> << >>

\* The switch of restoreBackup: the command of the engine kind, << >> for
\* the default branch.
RestoreCommand(app, backupPath) ==
    CASE ToLowerCase(app.database.type) = "postgresql" ->
            << Word("gunzip"), Word("<"), File(backupPath), Word("|"),
               Word("docker"), Word("exec"), Word("-i"),
               Word(Interpolate(app.database, "container")),
               Word("psql"), Word("-U"), Word(Interpolate(app.database, "username")),
               Word(Interpolate(app.database, "database")) >>
      [] ToLowerCase(app.database.type) = "mysql" ->
            << Word("gunzip"), Word("<"), File(backupPath), Word("|"),
               Word("docker"), Word("exec"), Word("-i"),
               Word(Interpolate(app.database, "container")),
               Word("mysql"), Word("-u"), Word(Interpolate(app.database, "username")),
               Glued("-p", Interpolate(app.database, "password")),
               Word(Interpolate(app.database, "database")) >>
      [] ToLowerCase(app.database.type) = "mongodb" ->
            << Word("gunzip"), Word("<"), File(backupPath), Word("|"),
               Word("docker"), Word("exec"), Word("-i"),
               Word(Interpolate(app.database, "container")),
               Word("mongorestore"), Word("--archive"), Word("--db"),
               Word(Interpolate(app.database, "database")) >>
      [] OTHER -> << >>

(***************************************************************************)
(* BackupService: the calls and the completions of their awaits.           *)
(***************************************************************************)
Idle(t) == tasks[t].pc = "idle"
\* A caller makes one call at a time.
Quiet == \A t \in Tasks : Idle(t)

Call(op, arg) == [IdleTask EXCEPT !.op = op, !.arg = arg]

\* createBackup(name), called by a route.
CreateBackup(t, name) ==
    /\ Quiet
    /\ Cardinality(files) < MaxFiles
    /\ tasks' = [tasks EXCEPT ![t] = EnterCreateBackup(Call("createBackup", name), name)]
    /\ UNCHANGED <<clock, rootDir, dirs, files, jobs, handles, lastCall, monitorVars>>

\* createAllBackups(): the loop starts at the first application with a
\* database descriptor.
CreateAllBackups(t) ==
    /\ Quiet
    /\ files = {}
    /\ tasks' = [tasks EXCEPT ![t] =
            IF NextDatabaseApp(0) = 0
            THEN [Call("createAll", "") EXCEPT !.pc = "done",
                        !.result = [NoResult EXCEPT !.success = TRUE]]
            ELSE EnterCreateBackup(
                    [Call("createAll", "") EXCEPT !.idx = NextDatabaseApp(0)],
                    Applications[NextDatabaseApp(0)].name)]
    /\ UNCHANGED <<clock, rootDir, dirs, files, jobs, handles, lastCall, monitorVars>>

\* await fs.mkdir(appBackupDir, {recursive: true}) completes; on success the
\* switch on the engine kind runs and execAsync spawns the backup command.
MkdirDone(t, ok) ==
    LET tk == tasks[t] IN
    /\ tk.pc = "cb_mkdir"
    /\ IF ok
       THEN /\ rootDir' = TRUE
            /\ dirs' = dirs \cup {tk.app}
            /\ tasks' = [tasks EXCEPT ![t] =
                    LET made == [tk EXCEPT !.fx = tk.fx \cup {"mkdir"}]
                    IN  IF EngineSuffix(EngineOf(tk.app)) = ""
                        THEN Settle(made, Failure(tk.app, "UnsupportedEngineKind"))
                        ELSE [made EXCEPT !.ext = EngineSuffix(EngineOf(tk.app)),
                                          !.pc = "cb_exec",
                                          !.fx = made.fx \cup {"exec"},
                                          !.cmd = BackupCommand(
                                                Applications[FindApp(tk.app)],
                                                [app |-> tk.app, stamp |-> tk.stamp,
                                                 ext |-> EngineSuffix(EngineOf(tk.app))])]]
       ELSE /\ tasks' = [tasks EXCEPT ![t] =
                    Settle(tk, Failure(tk.app, "FilesystemFailure"))]
            /\ UNCHANGED <<rootDir, dirs>>
    /\ UNCHANGED <<clock, files, jobs, handles, lastCall, monitorVars>>

\* The shell of the backup command opens its redirection target: the file
\* is created empty, or truncated if the path already exists.
ExecOpen(t) ==
    LET tk == tasks[t]
        p == ArtifactPath(tk)
    IN  /\ tk.pc = "cb_exec"
        /\ tk.app \in dirs
        /\ files' = IF Exists(p)
                    THEN (files \ {FileAt(p)}) \cup {[FileAt(p) EXCEPT !.size = 0]}
                    ELSE files \cup {[app |-> p.app, stamp |-> p.stamp, ext |-> p.ext,
                                      created |-> clock, size |-> 0]}
        /\ tasks' = [tasks EXCEPT ![t].pc = "cb_run"]
        /\ UNCHANGED <<clock, rootDir, dirs, jobs, handles, lastCall, monitorVars>>

\* The backup command exits with status code, having written sz bytes (in
\* the model's unit) to the artifact if it is still there.  A non-zero
\* status rejects execAsync.
ExecExit(t, code, sz) ==
    LET tk == tasks[t]
        p == ArtifactPath(tk)
    IN  /\ tk.pc = "cb_run"
        /\ files' = IF Exists(p)
                    THEN (files \ {FileAt(p)}) \cup {[FileAt(p) EXCEPT !.size = sz]}
                    ELSE files
        /\ tasks' = [tasks EXCEPT ![t] =
                IF code = 0 THEN [tk EXCEPT !.pc = "cb_stat"]
                ELSE Settle(tk, Failure(tk.app, "ProcessExecutionFailure"))]
        /\ UNCHANGED <<clock, rootDir, dirs, jobs, handles, lastCall, monitorVars>>

\* The backup command never terminates: execAsync has no timeout.
ExecHang(t) ==
    /\ tasks[t].pc = "cb_run"
    /\ tasks' = [tasks EXCEPT ![t].pc = "cb_hung"]
    /\ UNCHANGED <<clock, rootDir, dirs, files, jobs, handles, lastCall, monitorVars>>

\* await fs.stat(backupFile) completes: an empty artifact fails the backup,
\* any other starts the retention cleanup.
StatDone(t) ==
    LET tk == tasks[t]
        p == ArtifactPath(tk)
    IN  /\ tk.pc = "cb_stat"
        /\ tasks' = [tasks EXCEPT ![t] =
                IF ~Exists(p) THEN Settle(tk, Failure(tk.app, "FilesystemFailure"))
                ELSE IF IsEmpty(FileAt(p).size)
                     THEN Settle(tk, Failure(tk.app, "EmptyArtifact"))
                     ELSE EnterCleanup([tk EXCEPT !.size = FileAt(p).size],
                                       tk.app, RetentionOf(tk.app))]
        /\ UNCHANGED <<clock, rootDir, dirs, files, jobs, handles, lastCall, monitorVars>>

\* cleanupOldBackups(name, d), called directly.
CleanupOldBackups(t, name, d) ==
    /\ Quiet
    /\ tasks' = [tasks EXCEPT ![t] = EnterCleanup(Call("cleanup", name), name, d)]
    /\ UNCHANGED <<clock, rootDir, dirs, files, jobs, handles, lastCall, monitorVars>>

\* The caller of a cleanupOldBackups(name, d) that returned calls it again
\* with the same arguments.
CleanupAgain(t) ==
    LET tk == tasks[t] IN
    /\ tk.pc = "done"
    /\ tk.op = "cleanup"
    /\ tk.result.success
    /\ tasks' = [tasks EXCEPT ![t] =
            EnterCleanup([Call("cleanup", tk.app) EXCEPT
                                !.prev = [set |-> TRUE, cutoff |-> tk.cutoff,
                                          deleted |-> tk.deleted]],
                         tk.app, tk.retention)]
    /\ UNCHANGED <<clock, rootDir, dirs, files, jobs, handles, lastCall, monitorVars>>

\* await fs.readdir(appBackupDir) completes with the entries in some order;
\* a missing directory throws into the inner catch, which returns [].
ReaddirDone(t, order) ==
    LET tk == tasks[t] IN
    /\ tk.pc = "cl_readdir"
    /\ order \in Orders({PathOf(f) : f \in DirFiles(tk.app)})
    /\ tasks' = [tasks EXCEPT ![t] =
            IF tk.app \notin dirs THEN ListFailed(tk)
            ELSE IF order = << >> THEN AfterList(tk, << >>)
            ELSE [tk EXCEPT !.names = order, !.i = 1, !.pc = "cl_stat"]]
    /\ UNCHANGED <<clock, rootDir, dirs, files, jobs, handles, lastCall, monitorVars>>

\* await fs.stat(filePath) of entry i completes; a failing stat throws into
\* the inner catch, which returns [] for the whole listing.
StatEntry(t) ==
    LET tk == tasks[t]
        p == tk.names[tk.i]
    IN  /\ tk.pc = "cl_stat"
        /\ tasks' = [tasks EXCEPT ![t] =
                IF ~Exists(p) THEN ListFailed(tk)
                ELSE IF tk.i < Len(tk.names)
                     THEN [tk EXCEPT !.backups = Append(tk.backups,
                                                        Entry(tk.app, FileAt(p))),
                                     !.i = tk.i + 1]
                     ELSE AfterList(tk, Append(tk.backups, Entry(tk.app, FileAt(p))))]
        /\ UNCHANGED <<clock, rootDir, dirs, files, jobs, handles, lastCall, monitorVars>>

\* await fs.unlink(backup.path) of entry i completes; a failure propagates
\* out of cleanupOldBackups.
UnlinkDone(t, ok) ==
    LET tk == tasks[t]
        p == tk.backups[tk.i].path
    IN  /\ tk.pc = "cl_unlink"
        /\ IF ok /\ Exists(p)
           THEN /\ files' = files \ {FileAt(p)}
                /\ tasks' = [tasks EXCEPT ![t] =
                        ScanFrom([tk EXCEPT !.deleted = tk.deleted + 1,
                                            !.fx = tk.fx \cup {"unlink"}],
                                 tk.i + 1)]
           ELSE /\ files' = files
                /\ tasks' = [tasks EXCEPT ![t] = CleanupThrow(tk)]
        /\ UNCHANGED <<clock, rootDir, dirs, jobs, handles, lastCall, monitorVars>>

\* The caller takes the result; the slot is free again.
Return(t) ==
    /\ tasks[t].pc = "done"
    /\ tasks' = [tasks EXCEPT ![t] = IdleTask]
    /\ UNCHANGED <<clock, rootDir, dirs, files, jobs, handles, lastCall, monitorVars>>

\* Time passes.
Tick ==
    /\ clock < MaxTime
    /\ clock' = clock + 1
    /\ UNCHANGED <<rootDir, dirs, files, tasks, jobs, handles, lastCall, monitorVars>>

(***************************************************************************)
(* listBackups called directly.  A file whose app is "" lies in the backup *)
(* root itself, next to the application directories.                       *)
(***************************************************************************)
\* What fs.readdir(this.backupDir) returns: the directories and the plain
\* files of the root.
RootEntries ==
    {[dir |-> d, file |-> NoPath] : d \in dirs}
        \cup {[dir |-> "", file |-> PathOf(f)] : f \in DirFiles("")}

\* listBackups(name) with a name: up to the readdir of the directory.
ListBackups(t, name) ==
    /\ Quiet
    /\ name # ""
    /\ tasks' = [tasks EXCEPT ![t] =
            [Call("list", name) EXCEPT !.app = name, !.pc = "cl_readdir"]]
    /\ UNCHANGED <<clock, rootDir, dirs, files, jobs, handles, lastCall, monitorVars>>

\* listBackups() without a name: up to the readdir of the backup root.
ListAllBackups(t) ==
    /\ Quiet
    /\ tasks' = [tasks EXCEPT ![t] = [Call("list", "") EXCEPT !.pc = "ls_root"]]
    /\ UNCHANGED <<clock, rootDir, dirs, files, jobs, handles, lastCall, monitorVars>>

\* The walk stops after the first directory.
NextDirOnlyFirst(tk) == ListReturn(tk, tk.backups)

\* The loop over the root entries moves on: the stat of the next entry, or
\* the sorted list when there is none.
NextDir(tk) ==
    IF tk.idx < Len(tk.apps)
    THEN [tk EXCEPT !.idx = tk.idx + 1, !.pc = "ls_dirstat"]
    ELSE ListReturn(tk, tk.backups)

\* await fs.readdir(this.backupDir) completes; a missing root throws into
\* the outer catch.
RootReaddirDone(t, order) ==
    LET tk == tasks[t] IN
    /\ tk.pc = "ls_root"
    /\ order \in Orders(RootEntries)
    /\ tasks' = [tasks EXCEPT ![t] =
            IF ~rootDir THEN ListCatch(tk)
            ELSE NextDir([tk EXCEPT !.apps = order, !.idx = 0])]
    /\ UNCHANGED <<clock, rootDir, dirs, files, jobs, handles, lastCall, monitorVars>>

\* await fs.stat(appBackupDir) of root entry idx completes: a directory is
\* read, anything else is skipped, a vanished entry throws.
DirStatDone(t) ==
    LET tk == tasks[t]
        e == tk.apps[tk.idx]
    IN  /\ tk.pc = "ls_dirstat"
        /\ tasks' = [tasks EXCEPT ![t] =
                IF e.dir # ""
                THEN IF e.dir \in dirs
                     THEN [tk EXCEPT !.app = e.dir, !.pc = "ls_readdir"]
                     ELSE ListCatch(tk)
                ELSE IF Exists(e.file) THEN NextDir(tk) ELSE ListCatch(tk)]
        /\ UNCHANGED <<clock, rootDir, dirs, files, jobs, handles, lastCall, monitorVars>>

\* await fs.readdir(appBackupDir) of root entry idx completes.
DirReaddirDone(t, order) ==
    LET tk == tasks[t] IN
    /\ tk.pc = "ls_readdir"
    /\ order \in Orders({PathOf(f) : f \in DirFiles(tk.app)})
    /\ tasks' = [tasks EXCEPT ![t] =
            IF tk.app \notin dirs THEN ListCatch(tk)
            ELSE IF order = << >> THEN NextDir(tk)
            ELSE [tk EXCEPT !.names = order, !.i = 1, !.pc = "ls_stat"]]
    /\ UNCHANGED <<clock, rootDir, dirs, files, jobs, handles, lastCall, monitorVars>>

\* await fs.stat(filePath) of file i of root entry idx completes.
FileStatDone(t) ==
    LET tk == tasks[t]
        p == tk.names[tk.i]
    IN  /\ tk.pc = "ls_stat"
        /\ tasks' = [tasks EXCEPT ![t] =
                IF ~Exists(p) THEN ListCatch(tk)
                ELSE LET got == [tk EXCEPT !.backups = Append(tk.backups,
                                                Entry(tk.app, FileAt(p)))]
                     IN  IF tk.i < Len(tk.names)
                         THEN [got EXCEPT !.i = tk.i + 1]
                         ELSE NextDir(got)]
        /\ UNCHANGED <<clock, rootDir, dirs, files, jobs, handles, lastCall, monitorVars>>

(***************************************************************************)
(* restoreBackup.                                                          *)
(***************************************************************************)
\* File names a caller may pass for an application: those in its directory
\* and one that is not there.
MissingName == [stamp |-> 0, ext |-> "none"]
FileNames(name) == {[stamp |-> f.stamp, ext |-> f.ext] : f \in DirFiles(name)}
                        \cup {MissingName}

\* restoreBackup(name, fn) up to its first await, the fs.access of the path.
RestoreBackup(t, name, fn) ==
    /\ Quiet
    /\ fn \in FileNames(name)
    /\ tasks' = [tasks EXCEPT ![t] =
            LET in == [Call("restore", name) EXCEPT !.app = name,
                            !.stamp = fn.stamp, !.ext = fn.ext]
            IN  IF FindApp(name) = 0
                THEN [in EXCEPT !.pc = "done",
                                !.result = Failure(name, "ApplicationNotFound")]
                ELSE [in EXCEPT !.pc = "rs_access"]]
    /\ UNCHANGED <<clock, rootDir, dirs, files, jobs, handles, lastCall, monitorVars>>

\* What restoreBackup does once fs.access has resolved: the switch on the
\* engine kind, then execAsync spawns the restore command.
AfterAccess(tk) ==
    LET ok == [tk EXCEPT !.fx = tk.fx \cup {"access"}]
    IN  IF ~HasDatabase(Applications[FindApp(tk.app)])
        THEN [ok EXCEPT !.pc = "done", !.result = Failure(tk.app, "TypeError")]
        ELSE IF EngineSuffix(EngineOf(tk.app)) = ""
        THEN [ok EXCEPT !.pc = "done",
                        !.result = Failure(tk.app, "UnsupportedEngineKind")]
        ELSE [ok EXCEPT !.pc = "rs_exec", !.fx = ok.fx \cup {"exec"},
                        !.cmd = RestoreCommand(Applications[FindApp(tk.app)],
                                               ArtifactPath(tk))]

\* fs.access that never rejects.
AccessOutcomeAlways(tk) == AfterAccess(tk)

\* await fs.access(backupPath) completes: a missing file rejects and the
\* call fails with the error of the access.
AccessOutcome(tk) ==
    IF ~Exists(ArtifactPath(tk))
    THEN [tk EXCEPT !.pc = "done", !.result = Failure(tk.app, "ArtifactNotFound")]
    ELSE AfterAccess(tk)

AccessDone(t) ==
    /\ tasks[t].pc = "rs_access"
    /\ tasks' = [tasks EXCEPT ![t] = AccessOutcome(tasks[t])]
    /\ UNCHANGED <<clock, rootDir, dirs, files, jobs, handles, lastCall, monitorVars>>

\* A restore that consumes its artifact: the file is removed on exit.
RestoreExitConsuming(t, code) ==
    LET tk == tasks[t] IN
    /\ tk.pc = "rs_exec"
    /\ tasks' = [tasks EXCEPT ![t] =
            [tk EXCEPT !.pc = "done",
                       !.result = IF code = 0
                                  THEN Success(tk.app, ArtifactPath(tk), 0)
                                  ELSE Failure(tk.app, "ProcessExecutionFailure")]]
    /\ files' = {f \in files : PathOf(f) # ArtifactPath(tk)}
    /\ UNCHANGED <<clock, rootDir, dirs, jobs, handles, lastCall, monitorVars>>

\* The restore command exits with status code.
RestoreExit(t, code) ==
    LET tk == tasks[t] IN
    /\ tk.pc = "rs_exec"
    /\ tasks' = [tasks EXCEPT ![t] =
            [tk EXCEPT !.pc = "done",
                       !.result = IF code = 0
                                  THEN Success(tk.app, ArtifactPath(tk), 0)
                                  ELSE Failure(tk.app, "ProcessExecutionFailure")]]
    /\ UNCHANGED <<clock, rootDir, dirs, files, jobs, handles, lastCall, monitorVars>>

(***************************************************************************)
(* deleteBackup.  A file name is a plain name, or a relative path that     *)
(* climbs out of the directory of the application into a sibling           *)
(* directory (../other/name): up is "" for the first and the sibling for   *)
(* the second.                                                             *)
(***************************************************************************)
\* File names a caller may pass to deleteBackup for an application: plain
\* names, the missing one included, and relative paths to the files of the
\* other directories.
DeleteNames(name) ==
    {[up |-> "", stamp |-> fn.stamp, ext |-> fn.ext] : fn \in FileNames(name)}
        \cup {[up |-> f.app, stamp |-> f.stamp, ext |-> f.ext] :
                    f \in {g \in files : g.app # name /\ g.app # ""}}

\* path.join(this.backupDir, appName, filename): the joined path is
\* normalised, so that a ../ segment leaves the directory of appName.
JoinPath(name, fn) ==
    [app |-> IF fn.up = "" THEN name ELSE fn.up, stamp |-> fn.stamp, ext |-> fn.ext]

\* The files after an unlink that removes the whole directory of the path.
AfterUnlinkDirectory(p) == files \ DirFiles(p.app)

\* The files after fs.unlink(p) of an existing file.
AfterUnlink(p) == files \ {FileAt(p)}

\* deleteBackup(name, fn) up to its await, the unlink of the joined path;
\* a request for it may arrive while another call is in progress.
DeleteBackup(t, name, fn) ==
    /\ Idle(t)
    /\ fn \in DeleteNames(name)
    /\ tasks' = [tasks EXCEPT ![t] =
            [Call("delete", name) EXCEPT !.app = name, !.stamp = fn.stamp,
                    !.ext = fn.ext, !.names = <<JoinPath(name, fn)>>,
                    !.before = files, !.pc = "dl_unlink"]]
    /\ UNCHANGED <<clock, rootDir, dirs, files, jobs, handles, lastCall, monitorVars>>

\* await fs.unlink(backupPath) completes: the file is removed and true is
\* returned, or the error is thrown on.
DeleteDone(t, ok) ==
    LET tk == tasks[t]
        p == tk.names[1]
    IN  /\ tk.pc = "dl_unlink"
        /\ IF ok /\ Exists(p)
           THEN /\ files' = AfterUnlink(p)
                /\ tasks' = [tasks EXCEPT ![t] =
                        [tk EXCEPT !.pc = "done", !.fx = {"unlink"},
                                   !.result = Success(tk.app, p, 0)]]
           ELSE /\ files' = files
                /\ tasks' = [tasks EXCEPT ![t] =
                        [tk EXCEPT !.pc = "done",
                                   !.result = Failure(tk.app,
                                        IF Exists(p) THEN "FilesystemFailure"
                                        ELSE "ArtifactNotFound")]]
        /\ UNCHANGED <<clock, rootDir, dirs, jobs, handles, lastCall, monitorVars>>

(***************************************************************************)
(* Scheduler.                                                              *)
(***************************************************************************)
\* cron.validate of node-cron, on the expressions of the roster.
CronValidate(expr) == expr \in {"0 2 * * *", "0 3 * * *"}

\* app.database.backupSchedule is set and truthy.
HasSchedule(app) ==
    /\ "backupSchedule" \in DOMAIN app.database
    /\ app.database.backupSchedule # ""

\* app.database.backupSchedule || config.backup.defaultSchedule
ScheduleOf(app) ==
    IF HasSchedule(app) THEN app.database.backupSchedule ELSE DefaultSchedule

\* scheduleBackup(app) on the scheduler state st = [jobs, handles], ignoring
\* the validation.
ScheduleEffectUnchecked(st, app) ==
    [handles |-> Append(st.handles,
                        [app |-> app.name, schedule |-> ScheduleOf(app), running |-> TRUE]),
     jobs |-> Append(st.jobs,
                     [application |-> app.name, type |-> "backup",
                      schedule |-> ScheduleOf(app), job |-> Len(st.handles) + 1])]

\* scheduleBackup(app) on the scheduler state st = [jobs, handles]: an
\* invalid expression returns early; otherwise cron.schedule creates a
\* running trigger and the job is pushed.
ScheduleEffect(st, app) ==
    IF ~CronValidate(ScheduleOf(app)) THEN st
    ELSE [handles |-> Append(st.handles,
                        [app |-> app.name, schedule |-> ScheduleOf(app), running |-> TRUE]),
          jobs |-> Append(st.jobs,
                     [application |-> app.name, type |-> "backup",
                      schedule |-> ScheduleOf(app), job |-> Len(st.handles) + 1])]

\* The guard of init's forEach: app.database && app.database.backupSchedule.
InitSelects(app) == HasDatabase(app) /\ HasSchedule(app)

RECURSIVE InitFrom(_, _)
\* init()'s forEach over the roster from index i on.
InitFrom(st, i) ==
    IF i > Len(Applications) THEN st
    ELSE InitFrom(IF InitSelects(Applications[i])
                  THEN ScheduleEffect(st, Applications[i])
                  ELSE st,
                  i + 1)

SchedulerState == [jobs |-> jobs, handles |-> handles]

\* init(), called at startup.
SchedulerInit ==
    /\ Len(InitFrom(SchedulerState, 1).handles) <= MaxHandles
    /\ jobs' = InitFrom(SchedulerState, 1).jobs
    /\ handles' = InitFrom(SchedulerState, 1).handles
    /\ lastCall' = [op |-> "init", app |-> "", threw |-> FALSE]
    /\ UNCHANGED <<clock, rootDir, dirs, files, tasks, monitorVars>>

\* scheduleBackup(app) for roster application i; without a database
\* descriptor the read of app.database.backupSchedule throws.
ScheduleBackup(i) ==
    /\ Len(handles) < MaxHandles
    /\ IF HasDatabase(Applications[i])
       THEN /\ jobs' = ScheduleEffect(SchedulerState, Applications[i]).jobs
            /\ handles' = ScheduleEffect(SchedulerState, Applications[i]).handles
            /\ lastCall' = [op |-> "scheduleBackup", app |-> Applications[i].name,
                            threw |-> FALSE]
       ELSE /\ UNCHANGED <<jobs, handles>>
            /\ lastCall' = [op |-> "scheduleBackup", app |-> Applications[i].name,
                            threw |-> TRUE]
    /\ UNCHANGED <<clock, rootDir, dirs, files, tasks, monitorVars>>

\* stopAll() without the stop of the triggers: only the table is emptied.
StopAllKeepTriggers ==
    /\ handles' = handles
    /\ jobs' = << >>
    /\ lastCall' = [op |-> "stopAll", app |-> "", threw |-> FALSE]
    /\ UNCHANGED <<clock, rootDir, dirs, files, tasks, monitorVars>>

\* stopAll(): every trigger of the job table is stopped, the table emptied.
StopAll ==
    /\ handles' = [h \in DOMAIN handles |->
            IF \E k \in DOMAIN jobs : jobs[k].job = h
            THEN [handles[h] EXCEPT !.running = FALSE]
            ELSE handles[h]]
    /\ jobs' = << >>
    /\ lastCall' = [op |-> "stopAll", app |-> "", threw |-> FALSE]
    /\ UNCHANGED <<clock, rootDir, dirs, files, tasks, monitorVars>>

\* getJobs()
GetJobs ==
    [k \in DOMAIN jobs |->
        [application |-> jobs[k].application, type |-> jobs[k].type,
         schedule |-> jobs[k].schedule]]

\* A trigger that fires once: the fire stops it.
FireOnce(h, t) ==
    /\ h \in DOMAIN handles
    /\ handles[h].running
    /\ Idle(t)
    /\ Cardinality(files) < MaxTriggerFiles
    /\ tasks' = [tasks EXCEPT ![t] =
            EnterCreateBackup(Call("trigger", handles[h].app), handles[h].app)]
    /\ handles' = [handles EXCEPT ![h].running = FALSE]
    /\ UNCHANGED <<clock, rootDir, dirs, files, jobs, lastCall, monitorVars>>

\* A trigger whose callback waits for every other backup to finish.
FireExclusive(h, t) ==
    /\ h \in DOMAIN handles
    /\ handles[h].running
    /\ Quiet
    /\ Cardinality(files) < MaxTriggerFiles
    /\ tasks' = [tasks EXCEPT ![t] =
            EnterCreateBackup(Call("trigger", handles[h].app), handles[h].app)]
    /\ UNCHANGED <<clock, rootDir, dirs, files, jobs, handles, lastCall, monitorVars>>

\* A trigger with an overlap guard: the fire is skipped while a backup of
\* the same application is in progress.
FireGuarded(h, t) ==
    /\ h \in DOMAIN handles
    /\ handles[h].running
    /\ Idle(t)
    /\ \A u \in Tasks : tasks[u].pc \in {"idle", "done"} \/ tasks[u].app # handles[h].app
    /\ Cardinality(files) < MaxTriggerFiles
    /\ tasks' = [tasks EXCEPT ![t] =
            EnterCreateBackup(Call("trigger", handles[h].app), handles[h].app)]
    /\ UNCHANGED <<clock, rootDir, dirs, files, jobs, handles, lastCall, monitorVars>>

\* A running trigger fires: its callback calls createBackup(app.name) and
\* awaits it inside try/catch.
Fire(h, t) ==
    /\ h \in DOMAIN handles
    /\ handles[h].running
    /\ Idle(t)
    /\ Cardinality(files) < MaxTriggerFiles
    /\ tasks' = [tasks EXCEPT ![t] =
            EnterCreateBackup(Call("trigger", handles[h].app), handles[h].app)]
    /\ UNCHANGED <<clock, rootDir, dirs, files, jobs, handles, lastCall, monitorVars>>

(***************************************************************************)
(* Container attribution (DockerMonitor.findApplicationForContainer).      *)
(***************************************************************************)
\* String.prototype.includes: c occurs in s as a contiguous run.
Includes(s, c) ==
    \E i \in 0..(Len(s) - Len(c)) : SubSeq(s, i + 1, i + Len(c)) = c

\* containerName.replace('/', ''): the first slash is removed, wherever it is.
CleanName(containerName) ==
    IF \E i \in DOMAIN containerName : containerName[i] = Slash
    THEN LET i == CHOOSE k \in DOMAIN containerName :
                    /\ containerName[k] = Slash
                    /\ \A j \in 1..(k - 1) : containerName[j] # Slash
         IN  SubSeq(containerName, 1, i - 1)
                \o SubSeq(containerName, i + 1, Len(containerName))
    ELSE containerName

\* The match in one direction only: a fragment occurs in the name.
SomeOwnedOneWay(app, cleanName) ==
    \E k \in DOMAIN app.containers : Includes(cleanName, app.containers[k])

\* app.containers.some(c => cleanName.includes(c) || c.includes(cleanName))
SomeOwned(app, cleanName) ==
    \E k \in DOMAIN app.containers :
        \/ Includes(cleanName, app.containers[k])
        \/ Includes(app.containers[k], cleanName)

\* The loop over config.applications from position i on: the name of the
\* first application that matches, "" (null) when the roster is exhausted.
RECURSIVE ScanRoster(_, _)
ScanRoster(cleanName, i) ==
    IF i > Len(roster) THEN ""
    ELSE IF SomeOwned(roster[i], cleanName) THEN roster[i].name
    ELSE IF /\ HasDatabase(roster[i])
            /\ Includes(cleanName, roster[i].database.container)
         THEN roster[i].name
    ELSE ScanRoster(cleanName, i + 1)

FindApplicationForContainer(containerName) ==
    ScanRoster(CleanName(containerName), 1)

\* application || 'unknown'
OrUnknown(application) == IF application = "" THEN "unknown" ELSE application

\* findApplicationForContainer(containerName), called on its own, once.
FindApplication(containerName) ==
    /\ ~docker.resolved.called
    /\ docker' = [docker EXCEPT !.resolved =
            [called |-> TRUE, containerName |-> containerName,
             returned |-> FindApplicationForContainer(containerName),
             application |->
                OrUnknown(FindApplicationForContainer(containerName))]]
    /\ UNCHANGED <<clock, rootDir, dirs, files, tasks, jobs, handles, lastCall,
                   roster, millis, previousStats, polls, cachedData>>

(***************************************************************************)
(* Arithmetic of the monitors, on ratios.                                  *)
(***************************************************************************)
\* a / b and a * b
Divide(a, b) == [num |-> a.num * b.den, den |-> a.den * b.num]
Times(a, b) == [num |-> a.num * b.num, den |-> a.den * b.den]
IsFinite(q) == q.den # 0
Sign(n) == IF n > 0 THEN 1 ELSE IF n < 0 THEN -1 ELSE 0
Abs(n) == IF n < 0 THEN -n ELSE n

\* Math.round: the nearest integer, a half goes up; NaN and the infinities
\* are returned as they are.
MathRound(q) ==
    IF q.den = 0 THEN [num |-> Sign(q.num), den |-> 0]
    ELSE LET n == Sign(q.den) * q.num
             d == Abs(q.den)
         IN  Rat((2 * n + d) \div (2 * d))

\* Number.prototype.toFixed(2): the decimal with two digits, a count of
\* hundredths; a half goes away from zero.
ToFixed(q) ==
    IF q.den = 0 THEN [num |-> Sign(q.num), den |-> 0]
    ELSE LET n == Sign(q.den) * q.num
             d == Abs(q.den)
         IN  [num |-> Sign(n) * ((2 * Abs(n) * 100 + d) \div (2 * d)),
              den |-> 100]

(***************************************************************************)
(* The container poll (DockerMonitor.getContainers).                       *)
(***************************************************************************)
\* The division without the test of the system delta.
CpuPercentUnclamped(stats) ==
    Times(Times(Divide(Rat(stats.total_usage - stats.pre_total_usage),
                       Rat(stats.system_cpu_usage - stats.pre_system_cpu_usage)),
                Rat(stats.online_cpus)), Rat(100))

\* systemDelta > 0 ? (cpuDelta / systemDelta) * online_cpus * 100 : 0
CpuPercent(stats) ==
    LET cpuDelta == stats.total_usage - stats.pre_total_usage
        systemDelta == stats.system_cpu_usage - stats.pre_system_cpu_usage
    IN  IF systemDelta > 0
        THEN Times(Times(Divide(Rat(cpuDelta), Rat(systemDelta)),
                         Rat(stats.online_cpus)), Rat(100))
        ELSE Rat(0)

\* getContainers() is called: listContainers is awaited.
GetContainers ==
    /\ docker.pc \in {"idle", "done"}
    /\ docker.polled < MaxPolls
    /\ docker' = [docker EXCEPT !.pc = "list", !.details = << >>,
                                !.result = << >>, !.threw = FALSE,
                                !.polled = @ + 1]
    /\ UNCHANGED <<clock, rootDir, dirs, files, tasks, jobs, handles, lastCall,
                   roster, millis, previousStats, polls, cachedData>>

\* listContainers settles: on success every listed container gets its
\* mapper, which runs up to its first await; on failure the poll rethrows.
ListContainersDone(ok, listing) ==
    /\ docker.pc = "list"
    /\ docker' =
        IF ok
        THEN [docker EXCEPT !.pc = "map",
                            !.details = [i \in DOMAIN listing |-> Mapper(listing[i])]]
        ELSE [docker EXCEPT !.pc = "done", !.threw = TRUE]
    /\ UNCHANGED <<clock, rootDir, dirs, files, tasks, jobs, handles, lastCall,
                   roster, millis, previousStats, polls, cachedData>>

\* A mapper without its catch block: the failure rejects its promise.
CaughtRethrow(m, error) == [m EXCEPT !.pc = "rejected", !.error = error]

\* The catch block of a mapper: the partial record.
Caught(m, error) ==
    [m EXCEPT !.pc = "settled", !.error = error,
              !.record = [name |-> CleanName(m.raw), application |-> "",
                          cpuPercent |-> Rat(0),
                          error |-> "Could not fetch detailed stats"]]

\* containerObj.stats settles for the container listed at i.
StatsDone(i, ok, sample) ==
    /\ docker.pc = "map"
    /\ i \in DOMAIN docker.details
    /\ docker.details[i].pc = "stats"
    /\ docker' = [docker EXCEPT !.details[i] =
            IF ok THEN [@ EXCEPT !.pc = "inspect", !.stats = sample]
            ELSE Caught(@, "stats")]
    /\ UNCHANGED <<clock, rootDir, dirs, files, tasks, jobs, handles, lastCall,
                   roster, millis, previousStats, polls, cachedData>>

\* containerObj.inspect settles: on success the mapper computes the
\* percentages, resolves the application and returns the full record.
InspectDone(i, ok) ==
    /\ docker.pc = "map"
    /\ i \in DOMAIN docker.details
    /\ docker.details[i].pc = "inspect"
    /\ LET m == docker.details[i]
       IN  docker' = [docker EXCEPT !.details[i] =
                IF ok
                THEN [m EXCEPT !.pc = "settled",
                               !.cpuPercent = CpuPercent(m.stats),
                               !.record =
                                    [name |-> CleanName(m.raw),
                                     application |->
                                        OrUnknown(FindApplicationForContainer(m.raw)),
                                     cpuPercent |-> ToFixed(CpuPercent(m.stats)),
                                     error |-> "none"]]
                ELSE Caught(m, "inspect")]
    /\ UNCHANGED <<clock, rootDir, dirs, files, tasks, jobs, handles, lastCall,
                   roster, millis, previousStats, polls, cachedData>>

\* Promise.all settles: rejected as soon as a mapper rejects, which the
\* outer catch rethrows; fulfilled with the records in listing order when all
\* mappers returned, and the records are cached and returned.
ContainersSettled ==
    /\ docker.pc = "map"
    /\ IF \E i \in DOMAIN docker.details : docker.details[i].pc = "rejected"
       THEN /\ docker' = [docker EXCEPT !.pc = "done", !.threw = TRUE]
            /\ UNCHANGED cachedData
       ELSE /\ \A i \in DOMAIN docker.details : docker.details[i].pc = "settled"
            /\ docker' = [docker EXCEPT !.pc = "done",
                    !.result = [i \in DOMAIN docker.details |->
                                    docker.details[i].record]]
            /\ cachedData' = [cachedData EXCEPT !.docker =
                    [data |-> [i \in DOMAIN docker.details |->
                                    docker.details[i].record],
                     lastUpdate |-> millis]]
    /\ UNCHANGED <<clock, rootDir, dirs, files, tasks, jobs, handles, lastCall,
                   roster, millis, previousStats, polls>>

\* allContainers.filter((c) => c.application === appName): the view of one
\* application over the records of a poll.  A partial record has no
\* application attribute ("" here), which equals no name.
GetContainersByApplication(allContainers, appName) ==
    SelectSeq(allContainers, LAMBDA c : c.application # "" /\ c.application = appName)

(***************************************************************************)
(* The network poll (NetworkMonitor.getNetworkStats).                      *)
(***************************************************************************)
\* What si.networkStats() reports: the interfaces that are present, in the
\* host's order, each with its byte counters.
Reading(present, rx, tx) ==
    LET listed == SelectSeq(Interfaces, LAMBDA n : n \in present)
    IN  [k \in DOMAIN listed |->
            [iface |-> listed[k], rx_bytes |-> rx[listed[k]],
             tx_bytes |-> tx[listed[k]]]]

\* The speed of one counter: 0 without a previous sample, else the
\* difference divided by timeDiff = (Date.now() - timestamp) / 1000.
SpeedOf(bytes, prevBytes, prev) ==
    IF prev.set
    THEN Divide(Rat(bytes - prevBytes),
                Divide(Rat(millis - prev.timestamp), Rat(1000)))
    ELSE Rat(0)

\* getNetworkStats() is called: the three systeminformation queries are
\* awaited together.
GetNetworkStats(n) ==
    /\ polls[n].pc \in {"idle", "done"}
    /\ polls' = [polls EXCEPT ![n] =
            [pc |-> "wait", started |-> millis, threw |-> FALSE,
             interfaces |-> << >>]]
    /\ UNCHANGED <<clock, rootDir, dirs, files, tasks, jobs, handles, lastCall,
                   roster, docker, millis, previousStats, cachedData>>

\* The queries settle, after some time.  On success every reported
\* interface gets its speeds from its previous sample, which the current
\* counters then replace; the result is cached and returned.  On failure the
\* call rethrows.
NetworkStatsDone(n, ok, networkStats) ==
    /\ polls[n].pc = "wait"
    /\ millis > polls[n].started
    /\ IF ok
       THEN LET stats == [k \in DOMAIN networkStats |->
                    LET iface == networkStats[k]
                        prev == previousStats[iface.iface]
                    IN  [interface |-> iface.iface,
                         rxBytes |-> iface.rx_bytes,
                         txBytes |-> iface.tx_bytes,
                         rxSpeed |-> MathRound(
                            SpeedOf(iface.rx_bytes, prev.rx_bytes, prev)),
                         txSpeed |-> MathRound(
                            SpeedOf(iface.tx_bytes, prev.tx_bytes, prev))]]
            IN  /\ polls' = [polls EXCEPT ![n] =
                        [@ EXCEPT !.pc = "done", !.interfaces = stats]]
                /\ previousStats' = [i \in InterfaceNames |->
                        IF \E k \in DOMAIN networkStats : networkStats[k].iface = i
                        THEN LET k == CHOOSE j \in DOMAIN networkStats :
                                        networkStats[j].iface = i
                             IN  [set |-> TRUE,
                                  rx_bytes |-> networkStats[k].rx_bytes,
                                  tx_bytes |-> networkStats[k].tx_bytes,
                                  timestamp |-> millis]
                        ELSE previousStats[i]]
                /\ cachedData' = [cachedData EXCEPT !.network =
                        [data |-> stats, lastUpdate |-> millis]]
       ELSE /\ polls' = [polls EXCEPT ![n] =
                    [@ EXCEPT !.pc = "done", !.threw = TRUE]]
            /\ UNCHANGED <<previousStats, cachedData>>
    /\ UNCHANGED <<clock, rootDir, dirs, files, tasks, jobs, handles, lastCall,
                   roster, docker, millis>>

\* Time passes for the monitors.
MillisTick ==
    /\ millis + TickMillis <= MaxMillis
    /\ millis' = millis + TickMillis
    /\ UNCHANGED <<clock, rootDir, dirs, files, tasks, jobs, handles, lastCall,
                   roster, docker, previousStats, polls, cachedData>>

(***************************************************************************)
(* Specifications.                                                         *)
(***************************************************************************)
Next ==
    \/ \E t \in RouteTasks, name \in CallNames : CreateBackup(t, name)
    \/ \E t \in RouteTasks : CreateAllBackups(t)
    \/ \E t \in Tasks, ok \in BOOLEAN : MkdirDone(t, ok)
    \/ \E t \in Tasks : ExecOpen(t)
    \/ \E t \in Tasks, code \in {0, 1}, sz \in {0, 1} : ExecExit(t, code, sz)
    \/ \E t \in Tasks : ExecHang(t)
    \/ \E t \in Tasks : StatDone(t)
    \/ \E t \in Tasks :
            \E order \in Orders({PathOf(f) : f \in DirFiles(tasks[t].app)}) :
                ReaddirDone(t, order)
    \/ \E t \in Tasks : StatEntry(t)
    \/ \E t \in Tasks, ok \in BOOLEAN : UnlinkDone(t, ok)
    \/ \E t \in RouteTasks, name \in CallNames :
            \E fn \in FileNames(name) : RestoreBackup(t, name, fn)
    \/ \E t \in Tasks : AccessDone(t)
    \/ \E t \in Tasks, code \in {0, 1} : RestoreExit(t, code)
    \/ \E t \in Tasks : Return(t)
    \/ Tick

\* The service under calls made one at a time.
Spec == Init /\ [][Next]_vars

\* Artifacts that earlier runs of the service may have left on disk.
StoredNames == {"shop", "cache"}
StoredUniverse ==
    {[app |-> a, stamp |-> c, ext |-> EngineSuffix(EngineOf(a)), created |-> c, size |-> 1] :
        a \in StoredNames, c \in 0..MaxTime}

\* The service started on a backup root that already holds artifacts.
InitStored ==
    /\ clock \in 0..MaxTime
    /\ files \in {S \in SUBSET StoredUniverse :
                    /\ Cardinality(S) <= MaxStored
                    /\ \A f \in S : f.created <= clock}
    /\ dirs \in {D \in SUBSET StoredNames : \A f \in files : f.app \in D}
    /\ rootDir = TRUE
    /\ tasks = [t \in Tasks |-> IdleTask]
    /\ jobs = << >>
    /\ handles = << >>
    /\ lastCall = NoCall
    /\ MonitorInit

NextCleanup ==
    \/ \E t \in RouteTasks, name \in CallNames, d \in 0..MaxRetentionArg :
            CleanupOldBackups(t, name, d)
    \/ \E t \in Tasks : CleanupAgain(t)
    \/ \E t \in Tasks :
            \E order \in Orders({PathOf(f) : f \in DirFiles(tasks[t].app)}) :
                ReaddirDone(t, order)
    \/ \E t \in Tasks : StatEntry(t)
    \/ \E t \in Tasks, ok \in BOOLEAN : UnlinkDone(t, ok)
    \/ \E t \in Tasks : Return(t)
    \/ Tick

\* Retention cleanup called on a backup root with stored artifacts.
CleanupSpec == InitStored /\ [][NextCleanup]_vars

\* Files an operator may have put under the backup root, one per roster
\* application, whatever its descriptor.
Restorable ==
    {[app |-> a, stamp |-> 0, ext |-> "sql.gz", created |-> 0, size |-> 1] :
        a \in RosterNames}

\* The service a day after such files were stored.
InitRestorable ==
    /\ clock = 1
    /\ files \in {S \in SUBSET Restorable : Cardinality(S) < MaxFiles}
    /\ dirs = {f.app : f \in files}
    /\ rootDir = TRUE
    /\ tasks = [t \in Tasks |-> IdleTask]
    /\ jobs = << >>
    /\ handles = << >>
    /\ lastCall = NoCall
    /\ MonitorInit

NextEngine ==
    \/ \E t \in RouteTasks, name \in CallNames : CreateBackup(t, name)
    \/ \E t \in Tasks, ok \in BOOLEAN : MkdirDone(t, ok)
    \/ \E t \in Tasks : ExecOpen(t)
    \/ \E t \in Tasks, code \in {0, 1}, sz \in {0, 1} : ExecExit(t, code, sz)
    \/ \E t \in Tasks : StatDone(t)
    \/ \E t \in Tasks :
            \E order \in Orders({PathOf(f) : f \in DirFiles(tasks[t].app)}) :
                ReaddirDone(t, order)
    \/ \E t \in Tasks : StatEntry(t)
    \/ \E t \in Tasks, ok \in BOOLEAN : UnlinkDone(t, ok)
    \/ \E t \in RouteTasks, name \in CallNames :
            \E fn \in FileNames(name) : RestoreBackup(t, name, fn)
    \/ \E t \in Tasks : AccessDone(t)
    \/ \E t \in Tasks, code \in {0, 1} : RestoreExit(t, code)
    \/ \E t \in RouteTasks, name \in CallNames :
            \E fn \in DeleteNames(name) : DeleteBackup(t, name, fn)
    \/ \E t \in Tasks, ok \in BOOLEAN : DeleteDone(t, ok)
    \/ \E t \in Tasks : Return(t)

\* Backup, restore and deletion, one call at a time, of applications of every engine
\* kind on a backup root that holds files.
EngineSpec == InitRestorable /\ [][NextEngine]_vars

\* A plain file in the backup root.
RootFile == [app |-> "", stamp |-> 0, ext |-> "txt", created |-> 0, size |-> 1]

\* The service on a backup root that may be missing, empty, or hold
\* application directories with artifacts and a plain file.
InitListable ==
    /\ clock = MaxTime
    /\ files \in {S \in SUBSET (StoredUniverse \cup {RootFile}) :
                    Cardinality(S) <= MaxStored}
    /\ dirs \in {D \in SUBSET StoredNames : \A f \in files : f.app \in D \cup {""}}
    /\ rootDir \in {r \in BOOLEAN : ~r => (files = {} /\ dirs = {})}
    /\ tasks = [t \in Tasks |-> IdleTask]
    /\ jobs = << >>
    /\ handles = << >>
    /\ lastCall = NoCall
    /\ MonitorInit

NextList ==
    \/ \E t \in RouteTasks, name \in CallNames : ListBackups(t, name)
    \/ \E t \in RouteTasks : ListAllBackups(t)
    \/ \E t \in Tasks : \E order \in Orders(RootEntries) : RootReaddirDone(t, order)
    \/ \E t \in Tasks : DirStatDone(t)
    \/ \E t \in Tasks :
            \E order \in Orders({PathOf(f) : f \in DirFiles(tasks[t].app)}) :
                DirReaddirDone(t, order)
    \/ \E t \in Tasks : FileStatDone(t)
    \/ \E t \in Tasks :
            \E order \in Orders({PathOf(f) : f \in DirFiles(tasks[t].app)}) :
                ReaddirDone(t, order)
    \/ \E t \in Tasks : StatEntry(t)
    \/ \E t \in Tasks : Return(t)

\* listBackups on a filesystem nothing else writes to.
ListSpec == InitListable /\ [][NextList]_vars

NextRace ==
    \/ \E t \in RouteTasks, name \in StoredNames : ListBackups(t, name)
    \/ \E t \in RouteTasks, name \in StoredNames, d \in 0..MaxRetentionArg :
            CleanupOldBackups(t, name, d)
    \/ \E t \in Tasks \ RouteTasks, name \in StoredNames :
            \E fn \in DeleteNames(name) : DeleteBackup(t, name, fn)
    \/ \E t \in Tasks, ok \in BOOLEAN : DeleteDone(t, ok)
    \/ \E t \in Tasks :
            \E order \in Orders({PathOf(f) : f \in DirFiles(tasks[t].app)}) :
                ReaddirDone(t, order)
    \/ \E t \in Tasks : StatEntry(t)
    \/ \E t \in Tasks, ok \in BOOLEAN : UnlinkDone(t, ok)
    \/ \E t \in Tasks : Return(t)

\* A listing or a cleanup while a second request deletes artifacts.
RaceSpec == InitStored /\ [][NextRace]_vars

\* The server after init(): a backup root with at most one earlier artifact
\* and the triggers of the roster running.
InitOverlap ==
    /\ clock \in 0..MaxTime
    /\ files \in {S \in SUBSET StoredUniverse :
                    /\ Cardinality(S) < MaxFiles
                    /\ \A f \in S : f.created <= clock}
    /\ dirs = {f.app : f \in files}
    /\ rootDir = TRUE
    /\ tasks = [t \in Tasks |-> IdleTask]
    /\ jobs = InitFrom([jobs |-> << >>, handles |-> << >>], 1).jobs
    /\ handles = InitFrom([jobs |-> << >>, handles |-> << >>], 1).handles
    /\ lastCall = NoCall
    /\ MonitorInit

NextOverlap ==
    \/ \E t \in RouteTasks, name \in StoredNames : CreateBackup(t, name)
    \/ \E h \in DOMAIN handles, t \in Tasks \ RouteTasks : Fire(h, t)
    \/ \E t \in Tasks : MkdirDone(t, TRUE)
    \/ \E t \in Tasks : ExecOpen(t)
    \/ \E t \in Tasks, sz \in {0, 1} : ExecExit(t, 0, sz)
    \/ \E t \in Tasks : StatDone(t)
    \/ \E t \in Tasks :
            \E order \in Orders({PathOf(f) : f \in DirFiles(tasks[t].app)}) :
                ReaddirDone(t, order)
    \/ \E t \in Tasks : StatEntry(t)
    \/ \E t \in Tasks : UnlinkDone(t, TRUE)
    \/ \E t \in Tasks : Return(t)
    \/ Tick

\* A requested backup and the scheduled ones on a healthy disk and engine:
\* a filesystem call fails only for what the other run did to the files.
OverlapSpec == InitOverlap /\ [][NextOverlap]_vars

NextScheduled ==
    \/ SchedulerInit
    \/ \E i \in DOMAIN Applications : ScheduleBackup(i)
    \/ StopAll
    \/ \E h \in DOMAIN handles, t \in Tasks : Fire(h, t)
    \/ \E t \in Tasks, ok \in BOOLEAN : MkdirDone(t, ok)
    \/ \E t \in Tasks : ExecOpen(t)
    \/ \E t \in Tasks, code \in {0, 1}, sz \in {0, 1} : ExecExit(t, code, sz)
    \/ \E t \in Tasks : ExecHang(t)
    \/ \E t \in Tasks : StatDone(t)
    \/ \E t \in Tasks :
            \E order \in Orders({PathOf(f) : f \in DirFiles(tasks[t].app)}) :
                ReaddirDone(t, order)
    \/ \E t \in Tasks : StatEntry(t)
    \/ \E t \in Tasks, ok \in BOOLEAN : UnlinkDone(t, ok)
    \/ \E t \in Tasks : Return(t)

\* The scheduler and the backups its triggers start, which may overlap.
SchedSpec == Init /\ [][NextScheduled]_vars

\* Container attribution over every roster and every raw name.
InitAttribution ==
    /\ clock = 0
    /\ rootDir = TRUE
    /\ dirs = {}
    /\ files = {}
    /\ tasks = [t \in Tasks |-> IdleTask]
    /\ jobs = << >>
    /\ handles = << >>
    /\ lastCall = NoCall
    /\ roster \in Rosters(MaxApps)
    /\ MonitorIdle

NextAttribution == \E containerName \in RawNames : FindApplication(containerName)

AttributionSpec == InitAttribution /\ [][NextAttribution]_vars

\* The container poll.
NextDocker ==
    \/ GetContainers
    \/ \E ok \in BOOLEAN, listing \in Listings : ListContainersDone(ok, listing)
    \/ \E i \in 1..MaxContainers, ok \in BOOLEAN, sample \in Samples :
            StatsDone(i, ok, sample)
    \/ \E i \in 1..MaxContainers, ok \in BOOLEAN : InspectDone(i, ok)
    \/ ContainersSettled

DockerSpec == Init /\ [][NextDocker]_vars

\* The network polls, two of which may overlap.
NextNetwork ==
    \/ \E n \in NetTasks : GetNetworkStats(n)
    \/ \E n \in NetTasks, ok \in BOOLEAN, present \in SUBSET InterfaceNames,
          rx \in [InterfaceNames -> ByteCounts],
          tx \in [InterfaceNames -> SentCounts] :
            NetworkStatsDone(n, ok, Reading(present, rx, tx))
    \/ MillisTick

NetworkSpec == Init /\ [][NextNetwork]_vars


(***************************************************************************)
(* Properties.                                                             *)
(***************************************************************************)
\* Names of the roster applications with a database descriptor, in roster order.
DbNames ==
    LET db == SelectSeq(Applications, HasDatabase)
    IN  [k \in 1..Len(db) |-> db[k].name]
MonitoringOnly == {Applications[i].name : i \in {j \in DOMAIN Applications :
                                                    ~HasDatabase(Applications[j])}}
EntryNames(results) == [k \in 1..Len(results) |-> results[k].application]
CleanupPcs == {"cl_readdir", "cl_stat", "cl_unlink"}

\* Task t calls op(name) in this step.
Calls(t, ops, name) ==
    /\ tasks[t].pc = "idle"
    /\ tasks'[t].op \in ops
    /\ tasks'[t].arg = name

\* The createBackup that task record was runs settles with res in the step to now.
SettledWith(was, now, res) ==
    IF was.op = "createAll"
    THEN /\ Len(now.results) = Len(was.results) + 1
         /\ now.results[Len(now.results)] = res
    ELSE /\ now.pc = "done"
         /\ now.result = res

\* Some await of task t completes.
TaskStep(t) ==
    \/ \E ok \in BOOLEAN : MkdirDone(t, ok)
    \/ ExecOpen(t)
    \/ \E code \in {0, 1}, sz \in {0, 1} : ExecExit(t, code, sz)
    \/ StatDone(t)
    \/ \E order \in Orders({PathOf(f) : f \in DirFiles(tasks[t].app)}) :
            ReaddirDone(t, order)
    \/ StatEntry(t)
    \/ \E ok \in BOOLEAN : UnlinkDone(t, ok)

\* C1: createBackup of a roster application without a database descriptor
\* fails with NoDatabaseConfigured in the step of the call itself, having
\* created no directory, started no process and created or deleted no file.
C1_NoDatabaseNoWrites ==
    [][\A t \in Tasks : \A name \in MonitoringOnly :
        Calls(t, {"createBackup", "trigger"}, name) =>
            /\ tasks'[t].pc = "done"
            /\ tasks'[t].result = Failure(name, "NoDatabaseConfigured")
            /\ tasks'[t].fx = {}
            /\ UNCHANGED <<rootDir, dirs, files>>]_vars

C1_Witness ==
    \E t \in Tasks :
        /\ tasks[t].op = "createBackup"
        /\ tasks[t].arg \in MonitoringOnly
        /\ tasks[t].pc = "done"
        /\ tasks[t].result.error = "NoDatabaseConfigured"
        /\ files # {}

\* C2: createBackup and restoreBackup of a name that is not in the roster
\* fail with ApplicationNotFound in the step of the call itself, and the
\* filesystem after the call is the filesystem before it.
C2_NotFoundNoWrites ==
    [][\A t \in Tasks : \A name \in CallNames \ RosterNames :
        Calls(t, {"createBackup", "restore"}, name) =>
            /\ tasks'[t].pc = "done"
            /\ tasks'[t].result = Failure(name, "ApplicationNotFound")
            /\ tasks'[t].fx = {}
            /\ UNCHANGED <<rootDir, dirs, files>>]_vars

C2_Witness ==
    \E t \in Tasks :
        /\ tasks[t].op = "restore"
        /\ tasks[t].arg \notin RosterNames
        /\ tasks[t].pc = "done"
        /\ tasks[t].result.error = "ApplicationNotFound"
        /\ files # {}

\* C3: when the backup command has exited with status zero and the artifact
\* has size zero, the stat step settles createBackup with EmptyArtifact: no
\* success record, no retention cleanup, no file touched.
C3_EmptyArtifactFails ==
    [][\A t \in Tasks :
        ( /\ tasks[t].pc = "cb_stat"
          /\ Exists(ArtifactPath(tasks[t]))
          /\ FileAt(ArtifactPath(tasks[t])).size = 0
          /\ tasks'[t] # tasks[t] ) =>
            /\ SettledWith(tasks[t], tasks'[t], Failure(tasks[t].app, "EmptyArtifact"))
            /\ tasks'[t].pc \notin CleanupPcs
            /\ "cleanup" \notin tasks'[t].fx
            /\ files' = files]_vars

C3_Witness ==
    \E t \in Tasks :
        /\ tasks[t].op = "createBackup"
        /\ tasks[t].pc = "done"
        /\ tasks[t].result = Failure(tasks[t].app, "EmptyArtifact")
        /\ "exec" \in tasks[t].fx
        /\ "cleanup" \notin tasks[t].fx
        /\ Exists(ArtifactPath(tasks[t]))
        /\ FileAt(ArtifactPath(tasks[t])).size = 0

\* C4: a cleanup(app, d) that returns has deleted exactly the files of app
\* created strictly before now - d, where now is the instant it computed the
\* cutoff, has left every other file in place, and returns the number of
\* files it deleted.
C4_CleanupDeletesExpired ==
    \A t \in Tasks :
        LET tk == tasks[t] IN
        (tk.op = "cleanup" /\ tk.pc = "done" /\ tk.result.success) =>
            /\ files = {f \in tk.before :
                            ~(f.app = tk.app /\ f.created < tk.now - tk.retention)}
            /\ tk.deleted = Cardinality(tk.before \ files)

C4_Witness ==
    \E t \in Tasks :
        LET tk == tasks[t] IN
        /\ tk.op = "cleanup" /\ tk.pc = "done" /\ tk.result.success
        /\ tk.deleted = 2
        /\ \E f \in files : f.app = tk.app /\ f.created = tk.now - tk.retention

\* C5: a cleanup(app, d) repeated right after one that returned, with no
\* file of app expired now that was not expired then, deletes nothing,
\* returns 0 and leaves the files as they were.
C5_CleanupIdempotent ==
    \A t \in Tasks :
        LET tk == tasks[t] IN
        ( /\ tk.op = "cleanup" /\ tk.pc = "done" /\ tk.result.success
          /\ tk.prev.set
          /\ \A f \in tk.before :
                (f.app = tk.app /\ f.created < tk.now - tk.retention)
                    => f.created < tk.prev.cutoff ) =>
            /\ tk.deleted = 0
            /\ files = tk.before

C5_Witness ==
    \E t \in Tasks :
        LET tk == tasks[t] IN
        /\ tk.op = "cleanup" /\ tk.pc = "done" /\ tk.result.success
        /\ tk.prev.set
        /\ tk.prev.deleted = 2
        /\ tk.prev.cutoff = tk.now - tk.retention
        /\ tk.deleted = 0
        /\ DirFiles(tk.app) # {}

\* C6: the list createAllBackups returns has one entry for every roster
\* application with a database descriptor, in roster order, and none for a
\* monitoring-only application.
C6_OneEntryPerDatabaseApp ==
    \A t \in Tasks :
        (tasks[t].op = "createAll" /\ tasks[t].pc = "done") =>
            EntryNames(tasks[t].results) = DbNames

C6_Witness ==
    \E t \in Tasks :
        /\ tasks[t].op = "createAll" /\ tasks[t].pc = "done"
        /\ \E k \in DOMAIN tasks[t].results : tasks[t].results[k].success
        /\ \E k \in DOMAIN tasks[t].results : ~tasks[t].results[k].success
        /\ \A name \in MonitoringOnly :
                \A k \in DOMAIN tasks[t].results :
                    tasks[t].results[k].application # name

\* C7: createAllBackups never fails; every application with a database
\* descriptor is attempted; a failed one has an entry with a message; the
\* artifact of every entry marked success exists on disk when the list is
\* returned.
C7_FailuresIsolated ==
    \A t \in Tasks :
        LET tk == tasks[t] IN
        (tk.op = "createAll" /\ tk.pc = "done") =>
            /\ tk.result.success
            /\ \A k \in DOMAIN DbNames :
                    \E m \in DOMAIN tk.results : tk.results[m].application = DbNames[k]
            /\ \A m \in DOMAIN tk.results :
                    /\ ~tk.results[m].success => tk.results[m].error # "none"
                    /\ tk.results[m].success => Exists(tk.results[m].file)

\* C8 (as claimed): while one application's backup inside createAllBackups
\* hangs in its external process, every other application with a database
\* descriptor has its entry already or some backup of the call can proceed.
C8_OthersProceed ==
    \A t \in Tasks :
        LET tk == tasks[t] IN
        (tk.op = "createAll" /\ tk.pc = "cb_hung") =>
            \/ \A k \in DOMAIN DbNames :
                    \/ DbNames[k] = tk.app
                    \/ \E m \in DOMAIN tk.results : tk.results[m].application = DbNames[k]
            \/ ENABLED TaskStep(t)

\* C8 (amended): createAllBackups runs the backups one at a time in roster
\* order: while it runs, the entries pushed are those of the first
\* applications with a database descriptor, the backup in progress is that of
\* the next one, no later one has started, and a backup hung in its external
\* process leaves the call without any step to take.
C8_OneAtATime ==
    \A t \in Tasks :
        LET tk == tasks[t] IN
        (tk.op = "createAll" /\ tk.pc \notin {"idle", "done"}) =>
            /\ Len(tk.results) < Len(DbNames)
            /\ EntryNames(tk.results) = SubSeq(DbNames, 1, Len(tk.results))
            /\ tk.app = DbNames[Len(tk.results) + 1]
            /\ tk.pc = "cb_hung" => ~ENABLED TaskStep(t)

C8_Witness ==
    \E t \in Tasks :
        LET tk == tasks[t] IN
        /\ tk.op = "createAll" /\ tk.pc = "cb_hung"
        /\ Len(tk.results) >= 1
        /\ Len(tk.results) + 1 < Len(DbNames)

\* The step is a call of init().
InitStep ==
    /\ lastCall'.op = "init"
    /\ <<jobs, handles, lastCall>>' # <<jobs, handles, lastCall>>

JobCount(js, name) == Cardinality({k \in DOMAIN js : js[k].application = name})
HandleCount(hs, name) == Cardinality({k \in DOMAIN hs : hs[k].app = name})

\* The cadence the documentation gives an application: its own expression,
\* the process-wide default when it omits one.
DocumentedCadence(app) ==
    IF "backupSchedule" \in DOMAIN app.database
    THEN app.database.backupSchedule
    ELSE DefaultSchedule

\* C9: init() on an empty job table leaves exactly one job for every
\* application with a database descriptor whose cadence, its own or the
\* default when it omits one, is valid, with that cadence, and no job for
\* any other application.
C9_InitSchedulesEveryDatabaseApp ==
    [][(InitStep /\ jobs = << >>) =>
        \A i \in DOMAIN Applications :
            LET app == Applications[i] IN
            IF HasDatabase(app) /\ CronValidate(DocumentedCadence(app))
            THEN /\ JobCount(jobs', app.name) = 1
                 /\ \A k \in DOMAIN jobs' :
                        jobs'[k].application = app.name
                            => jobs'[k].schedule = DocumentedCadence(app)
            ELSE JobCount(jobs', app.name) = 0]_vars

\* C10: scheduleBackup of an application whose cadence expression is invalid
\* creates no trigger, adds no job and throws nothing; init() does the same
\* for such an application and still adds one job and one trigger for every
\* application that carries a valid cadence expression, the later ones
\* included.
C10_InvalidCadenceSkipped ==
    [][/\ \A i \in DOMAIN Applications :
            LET app == Applications[i] IN
            ( /\ lastCall'.op = "scheduleBackup"
              /\ lastCall'.app = app.name
              /\ HasDatabase(app)
              /\ ~CronValidate(DocumentedCadence(app)) ) =>
                /\ jobs' = jobs
                /\ handles' = handles
                /\ ~lastCall'.threw
       /\ InitStep =>
            /\ ~lastCall'.threw
            /\ \A i \in DOMAIN Applications :
                LET app == Applications[i] IN
                HasDatabase(app) /\ "backupSchedule" \in DOMAIN app.database =>
                    IF CronValidate(app.database.backupSchedule)
                    THEN /\ JobCount(jobs', app.name) = JobCount(jobs, app.name) + 1
                         /\ HandleCount(handles', app.name)
                                = HandleCount(handles, app.name) + 1
                    ELSE /\ JobCount(jobs', app.name) = JobCount(jobs, app.name)
                         /\ HandleCount(handles', app.name)
                                = HandleCount(handles, app.name)]_vars

C10_Witness ==
    /\ lastCall.op = "init"
    /\ \E i, j \in DOMAIN Applications :
        /\ i < j
        /\ HasDatabase(Applications[i])
        /\ ~CronValidate(DocumentedCadence(Applications[i]))
        /\ JobCount(jobs, Applications[i].name) = 0
        /\ HandleCount(handles, Applications[i].name) = 0
        /\ JobCount(jobs, Applications[j].name) = 1
        /\ \E h \in DOMAIN handles :
                handles[h].app = Applications[j].name /\ handles[h].running

\* Pcs of a createBackup that is waiting for an await to complete.
RunningPcs == {"cb_mkdir", "cb_exec", "cb_run", "cb_stat",
               "cl_readdir", "cl_stat", "cl_unlink"}

\* C11: a step of a backup (a trigger fire, the completion of an await, the
\* settling of the createBackup with success or failure, the return of the
\* callback) leaves the job table, the triggers and what getJobs returns as
\* they were; the job table changes only in a call of init or scheduleBackup,
\* which appends to it, or of stopAll, which empties it.
C11_FireKeepsJobTable ==
    [][/\ tasks' # tasks =>
            /\ jobs' = jobs
            /\ handles' = handles
            /\ GetJobs' = GetJobs
       /\ jobs' # jobs =>
            \/ /\ lastCall'.op \in {"init", "scheduleBackup"}
               /\ Len(jobs') > Len(jobs)
               /\ SubSeq(jobs', 1, Len(jobs)) = jobs
            \/ /\ lastCall'.op = "stopAll"
               /\ jobs' = << >>]_vars

\* The job of the application is in the table with a running trigger.
Scheduled(name) ==
    \E k \in DOMAIN jobs :
        /\ jobs[k].application = name
        /\ handles[jobs[k].job].running
        /\ jobs[k].schedule = handles[jobs[k].job].schedule

C11_Witness ==
    \E t, u \in Tasks :
        /\ tasks[t].op = "trigger" /\ tasks[t].pc = "done"
        /\ ~tasks[t].result.success
        /\ Scheduled(tasks[t].app)
        /\ tasks[u].op = "trigger" /\ tasks[u].pc = "done"
        /\ tasks[u].result.success
        /\ Scheduled(tasks[u].app)

\* C12: while the backup a trigger started for one application is waiting
\* or hung in its external process, a running trigger of another
\* application can fire into a free callback (as long as the artifact bound
\* leaves room), and a backup of another application that is waiting for an
\* await can complete it.
C12_TriggersIndependent ==
    \A t \in Tasks :
        (tasks[t].op = "trigger" /\ tasks[t].pc \in RunningPcs \cup {"cb_hung"}) =>
            \A u \in Tasks \ {t} :
                /\ (Idle(u) /\ Cardinality(files) < MaxTriggerFiles) =>
                        \A h \in DOMAIN handles :
                            (handles[h].running /\ handles[h].app # tasks[t].app)
                                => ENABLED Fire(h, u)
                /\ ( /\ tasks[u].op = "trigger"
                     /\ tasks[u].app # tasks[t].app
                     /\ tasks[u].pc \in RunningPcs ) => ENABLED TaskStep(u)

C12_Witness ==
    \E t, u \in Tasks :
        /\ tasks[t].op = "trigger" /\ tasks[t].pc = "cb_hung"
        /\ tasks[u].op = "trigger" /\ tasks[u].pc = "done"
        /\ tasks[u].app # tasks[t].app
        /\ tasks[u].result.success
        /\ Exists(tasks[u].result.file)
        /\ Exists(ArtifactPath(tasks[t]))

\* C13: every running trigger is in the job table, so that after stopAll()
\* the job table is empty, getJobs returns the empty list, every trigger
\* created so far is stopped and none can fire, until init or
\* scheduleBackup is called.
C13_StopAllStopsEverything ==
    /\ \A h \in DOMAIN handles :
            handles[h].running => \E k \in DOMAIN jobs : jobs[k].job = h
    /\ lastCall.op = "stopAll" =>
            /\ jobs = << >>
            /\ GetJobs = << >>
            /\ \A h \in DOMAIN handles : ~handles[h].running
            /\ \A h \in DOMAIN handles : \A t \in Tasks : ~ENABLED Fire(h, t)

C13_Witness ==
    /\ lastCall.op = "stopAll"
    /\ Len(handles) = MaxHandles
    /\ \E t \in Tasks : tasks[t].op = "trigger" /\ tasks[t].pc \in RunningPcs

\* The engine kinds the service supports.
SupportedKinds == {"postgresql", "mysql", "mongodb"}
\* The engine kind of a roster application with a database descriptor.
KindOf(name) == ToLowerCase(Applications[FindApp(name)].database.type)
ExecPcs == {"cb_exec", "cb_run", "cb_hung", "cb_stat", "rs_exec"}

\* C14: createBackup and restoreBackup of a roster application whose engine
\* kind is none of postgresql, mysql, mongodb in any letter case never build
\* a command and never start an external process; they fail, with
\* UnsupportedEngineKind exactly when the step in front of the switch (the
\* mkdir of createBackup, the access of restoreBackup) succeeded and with
\* the error of that step otherwise.  A supported kind, in whatever letter
\* case, never fails with UnsupportedEngineKind.
C14_UnsupportedEngineNoProcess ==
    \A t \in Tasks :
        LET tk == tasks[t] IN
        ( /\ tk.op \in {"createBackup", "restore"}
          /\ FindApp(tk.arg) # 0
          /\ HasDatabase(Applications[FindApp(tk.arg)]) ) =>
            IF KindOf(tk.arg) \notin SupportedKinds
            THEN /\ "exec" \notin tk.fx
                 /\ tk.cmd = << >>
                 /\ tk.pc \notin ExecPcs \cup CleanupPcs
                 /\ tk.pc = "done" =>
                        /\ ~tk.result.success
                        /\ tk.result.error =
                              IF tk.fx \cap {"mkdir", "access"} # {}
                              THEN "UnsupportedEngineKind"
                              ELSE IF tk.op = "restore" THEN "ArtifactNotFound"
                              ELSE "FilesystemFailure"
            ELSE tk.pc = "done" => tk.result.error # "UnsupportedEngineKind"

C14_Witness ==
    \E t \in Tasks :
        LET tk == tasks[t] IN
        /\ tk.op = "restore" /\ tk.pc = "done"
        /\ FindApp(tk.arg) # 0
        /\ HasDatabase(Applications[FindApp(tk.arg)])
        /\ KindOf(tk.arg) \notin SupportedKinds
        /\ Exists(ArtifactPath(tk))
        /\ tk.result = Failure(tk.arg, "UnsupportedEngineKind")

\* C15: the step in which a createBackup fails with UnsupportedEngineKind
\* leaves the backup root, the application directories and the files as
\* they were when createBackup was called.
C15_UnsupportedEngineNoPartialState ==
    [][\A t \in Tasks :
        ( /\ tasks[t].op = "createBackup"
          /\ tasks[t].pc = "cb_mkdir"
          /\ tasks'[t].pc = "done"
          /\ tasks'[t].result.error = "UnsupportedEngineKind" ) =>
            UNCHANGED <<rootDir, dirs, files>>]_vars

Contains(cmd, w) == \E k \in DOMAIN cmd : cmd[k] = w
DumpTool(kind) ==
    CASE kind = "postgresql" -> "pg_dump"
      [] kind = "mysql" -> "mysqldump"
      [] kind = "mongodb" -> "mongodump"
RestoreTool(kind) ==
    CASE kind = "postgresql" -> "psql"
      [] kind = "mysql" -> "mysql"
      [] kind = "mongodb" -> "mongorestore"

\* C16: a process is only ever started with a command, and every command
\* built is that of a supported engine kind: it names the container and
\* the database of the descriptor; a backup command names the dump tool of
\* the kind and ends with the redirection to the destination path; a
\* restore command names the restore tool of the kind and reads the
\* artifact.
C16_CommandsNameToolContainerDatabase ==
    \A t \in Tasks :
        LET tk == tasks[t] IN
        /\ tk.pc \in ExecPcs => tk.cmd # << >>
        /\ tk.cmd # << >> =>
            LET db == Applications[FindApp(tk.app)].database
                n == Len(tk.cmd)
            IN  /\ KindOf(tk.app) \in SupportedKinds
                /\ Contains(tk.cmd, Word(db.container))
                /\ Contains(tk.cmd, Word(db.database))
                /\ IF tk.op = "restore"
                   THEN /\ Contains(tk.cmd, Word(RestoreTool(KindOf(tk.app))))
                        /\ \E k \in 1..(n - 1) :
                                /\ tk.cmd[k] = Word("<")
                                /\ tk.cmd[k + 1] = File(ArtifactPath(tk))
                   ELSE /\ Contains(tk.cmd, Word(DumpTool(KindOf(tk.app))))
                        /\ tk.cmd[n - 1] = Word(">")
                        /\ tk.cmd[n] = File(ArtifactPath(tk))

C16_Witness ==
    \E t \in Tasks :
        LET tk == tasks[t] IN
        /\ tk.op = "restore" /\ tk.pc = "rs_exec"
        /\ Applications[FindApp(tk.app)].database.type # KindOf(tk.app)
        /\ Contains(tk.cmd, Word("mysql"))
        /\ Contains(tk.cmd, Word("blog-db"))
        /\ Contains(tk.cmd, Word("blogdb"))

\* C20: restoreBackup of a roster application first awaits the access of
\* the path; when no file is there, the completion of that await settles
\* the call with ArtifactNotFound, no command built, no process started,
\* the filesystem as it was.
C20_MissingArtifactNoRestore ==
    [][\A t \in Tasks :
        /\ \A name \in RosterNames :
                Calls(t, {"restore"}, name) =>
                    /\ tasks'[t].pc = "rs_access"
                    /\ tasks'[t].cmd = << >>
                    /\ tasks'[t].fx = {}
        /\ ( /\ tasks[t].pc = "rs_access"
             /\ ~Exists(ArtifactPath(tasks[t]))
             /\ tasks'[t] # tasks[t] ) =>
                /\ tasks'[t].pc = "done"
                /\ tasks'[t].result = Failure(tasks[t].app, "ArtifactNotFound")
                /\ tasks'[t].cmd = << >>
                /\ tasks'[t].fx = {}
                /\ UNCHANGED <<rootDir, dirs, files>>]_vars

C20_Witness ==
    \E t \in Tasks :
        LET tk == tasks[t] IN
        /\ tk.op = "restore" /\ tk.pc = "done"
        /\ FindApp(tk.arg) # 0
        /\ HasDatabase(Applications[FindApp(tk.arg)])
        /\ KindOf(tk.arg) \in SupportedKinds
        /\ DirFiles(tk.arg) # {}
        /\ ~Exists(ArtifactPath(tk))
        /\ tk.result = Failure(tk.arg, "ArtifactNotFound")
        /\ tk.cmd = << >>

\* A call of listBackups has returned in task t.
Listed(t) == tasks[t].op = "list" /\ tasks[t].pc = "done"

\* C17: listBackups never raises; listBackups(app) for an application
\* whose directory does not exist returns the empty list, and so does
\* listBackups() when the backup root is missing or holds no directory.
C17_MissingDirectoryEmptyList ==
    \A t \in Tasks :
        Listed(t) =>
            /\ tasks[t].result.success
            /\ (tasks[t].arg # "" /\ tasks[t].arg \notin dirs)
                    => tasks[t].backups = << >>
            /\ (tasks[t].arg = "" /\ (~rootDir \/ dirs = {}))
                    => tasks[t].backups = << >>

C17_Witness ==
    \E t \in Tasks :
        /\ Listed(t)
        /\ tasks[t].arg \in RosterNames
        /\ tasks[t].arg \notin dirs
        /\ dirs # {}
        /\ files # {}
        /\ tasks[t].result.success
        /\ tasks[t].backups = << >>

\* C18: the list listBackups returns, with or without a name, is in
\* descending order of creation instant: no entry is older than the one
\* after it, and so no entry is more recent than the first.
C18_ListSortedDescending ==
    \A t \in Tasks :
        Listed(t) =>
            LET l == tasks[t].backups IN
            /\ \A k \in 1..(Len(l) - 1) : l[k].created >= l[k + 1].created
            /\ \A k \in DOMAIN l : l[1].created >= l[k].created

C18_Witness ==
    \E t \in Tasks :
        LET l == tasks[t].backups IN
        /\ Listed(t)
        /\ tasks[t].arg = ""
        /\ Len(l) = MaxStored
        /\ l[1].created > l[Len(l)].created
        /\ \E j, k \in DOMAIN l :
                /\ j < k
                /\ l[j].application # l[k].application
                /\ l[j].created = l[k].created
        /\ l[1].application # l[Len(l)].application

\* The files the listing of argument arg is to report: those of the
\* directory named, those of every directory of the root without a name.
Reported(arg) ==
    IF arg # "" THEN DirFiles(arg) ELSE {f \in files : f.app \in dirs}

\* C19: with nothing else writing, the list listBackups returns has exactly
\* one entry for every file of the directory named, or of every directory
\* of the backup root when no name is given, and no other entry; every
\* entry carries the name of the directory of its file as application,
\* and the size and creation instant of the file.
C19_ListExactlyTheFiles ==
    \A t \in Tasks :
        Listed(t) =>
            LET l == tasks[t].backups IN
            /\ Len(l) = Cardinality(Reported(tasks[t].arg))
            /\ \A f \in Reported(tasks[t].arg) :
                    \E k \in DOMAIN l :
                        /\ l[k].path = PathOf(f)
                        /\ l[k].application = f.app
                        /\ l[k].size = f.size
                        /\ l[k].created = f.created
            /\ \A k \in DOMAIN l :
                    \E f \in Reported(tasks[t].arg) : l[k].path = PathOf(f)

C19_Witness ==
    \E t \in Tasks :
        LET l == tasks[t].backups IN
        /\ Listed(t)
        /\ tasks[t].arg = ""
        /\ Len(l) >= 2
        /\ \E j, k \in DOMAIN l : l[j].application # l[k].application
        /\ DirFiles("") # {}

\* C21: the completion of the unlink of deleteBackup(app, filename) either
\* removes exactly the file at the path joined from app and filename, which
\* is the artifact (app, filename) for a plain file name, and returns, or
\* fails and leaves every file in place; it fails when no file is at the
\* path.  No other file and no directory changes.
C21_DeleteRemovesExactlyOne ==
    [][\A t \in Tasks :
        (tasks[t].pc = "dl_unlink" /\ tasks'[t] # tasks[t]) =>
            LET p == tasks[t].names[1] IN
            /\ tasks'[t].pc = "done"
            /\ (tasks[t].names[1].app = tasks[t].arg) => p = ArtifactPath(tasks[t])
            /\ IF tasks'[t].result.success
               THEN /\ Exists(p)
                    /\ files' = {f \in files : PathOf(f) # p}
               ELSE files' = files
            /\ ~Exists(p) => ~tasks'[t].result.success
            /\ UNCHANGED <<rootDir, dirs>>]_vars

C21_Witness ==
    \E t \in Tasks :
        LET tk == tasks[t] IN
        /\ tk.op = "delete" /\ tk.pc = "done"
        /\ tk.result.success
        /\ tk.names[1] = ArtifactPath(tk)
        /\ ~Exists(ArtifactPath(tk))
        /\ DirFiles(tk.arg) # {}
        /\ files = {f \in tk.before : PathOf(f) # ArtifactPath(tk)}

\* C22: no step of createBackup(A), of its retention cleanup, of
\* restoreBackup(A, f) or of deleteBackup(A, f) creates, changes or removes
\* a file of a directory other than that of A.
C22_OwnDirectoryOnly ==
    [][\A t \in Tasks :
        ( /\ tasks[t].op \in {"createBackup", "restore", "delete"}
          /\ tasks'[t] # tasks[t] ) =>
            {f \in files' : f.app # tasks[t].arg}
                = {f \in files : f.app # tasks[t].arg}]_vars

\* The retention window the configuration gives an application: the
\* retentionDays of its descriptor, the process-wide default when the
\* descriptor has none.
ConfiguredRetention(name) ==
    LET db == Applications[FindApp(name)].database
    IN  IF "retentionDays" \in DOMAIN db THEN db.retentionDays
        ELSE DefaultRetentionDays

CreatePcs == {"cb_mkdir", "cb_exec", "cb_run", "cb_hung", "cb_stat"}

\* C23: no step of a createBackup before its retention cleanup removes a
\* file, and one that fails there has not entered the cleanup; the step
\* that verifies the artifact non-empty enters the cleanup of that
\* application with the retention window the configuration gives it, and a
\* cleanup once entered is not entered again by the same createBackup.
C23_RetentionAfterSuccessOnly ==
    [][\A t \in Tasks :
        LET was == tasks[t]
            now == tasks'[t]
        IN  (was.op \in {"createBackup", "trigger"} /\ now # was) =>
                /\ was.pc \in CreatePcs =>
                        /\ \A f \in files : \E g \in files' : PathOf(g) = PathOf(f)
                        /\ now.pc = "done" =>
                                (~now.result.success /\ "cleanup" \notin now.fx)
                /\ ( /\ was.pc = "cb_stat"
                     /\ Exists(ArtifactPath(was))
                     /\ FileAt(ArtifactPath(was)).size > 0 ) =>
                        /\ now.pc = "cl_readdir"
                        /\ now.app = was.app
                        /\ now.retention = ConfiguredRetention(was.app)
                /\ was.pc \in CleanupPcs => now.pc \in {"cl_stat", "cl_unlink", "done"}]_vars

\* The await task record tk is waiting on will reject because the file it
\* names is not there.
FileGone(tk) ==
    \/ tk.pc = "cb_stat" /\ ~Exists(ArtifactPath(tk))
    \/ tk.pc = "cl_stat" /\ ~Exists(tk.names[tk.i])
    \/ tk.pc = "cl_unlink" /\ ~Exists(tk.backups[tk.i].path)
    \/ tk.pc = "rs_access" /\ ~Exists(ArtifactPath(tk))
    \/ tk.pc = "dl_unlink" /\ ~Exists(tk.names[1])

\* C24: when the filesystem call a createBackup, restoreBackup,
\* deleteBackup, cleanup or listBackups(app) is waiting on fails because
\* its file is gone, the completion of that call settles the operation
\* with a failure.
C24_ErrorsSurface ==
    [][\A t \in Tasks :
        ( /\ tasks[t].op \in {"createBackup", "restore", "delete", "cleanup", "list"}
          /\ tasks[t].op = "list" => tasks[t].arg # ""
          /\ FileGone(tasks[t])
          /\ tasks'[t] # tasks[t] ) =>
            /\ tasks'[t].pc = "done"
            /\ ~tasks'[t].result.success]_vars

\* C29: every file in an application directory is a verified artifact: it
\* is not empty and it is not the destination of a createBackup whose
\* command is still running or whose artifact is not yet verified.
C29_ArtifactsAtomic ==
    \A f \in files :
        /\ f.size > 0
        /\ \A t \in Tasks :
                tasks[t].pc \in {"cb_run", "cb_hung", "cb_stat"}
                    => ArtifactPath(tasks[t]) # PathOf(f)

\* C30: when the unlink of an expired artifact fails during the retention
\* cleanup of a createBackup, the cleanup deletes nothing more and the
\* createBackup fails with the error of the unlink, returning no success
\* record, while the artifact it wrote and verified is still on disk.
C30_UnlinkFailureFailsBackup ==
    [][\A t \in Tasks :
        LET was == tasks[t]
            now == tasks'[t]
        IN  ( /\ was.op \in {"createBackup", "trigger"}
              /\ was.pc = "cl_unlink"
              /\ now # was
              /\ files' = files ) =>
                /\ now.pc = "done"
                /\ now.result = Failure(was.app, "FilesystemFailure")
                /\ now.deleted = was.deleted
                /\ Exists(ArtifactPath(was))
                /\ FileAt(ArtifactPath(was)).size > 0]_vars

(***************************************************************************)
(* Monitors.                                                               *)
(***************************************************************************)
\* c is a contiguous part of s.
IsSubstring(c, s) ==
    \E i \in 0..Len(s) : \E j \in i..Len(s) : SubSeq(s, i + 1, j) = c

\* The application matches the cleaned name: a fragment in the name, the
\* name in a fragment, or the database container in the name.
AppMatches(app, clean) ==
    \/ \E k \in DOMAIN app.containers :
            IsSubstring(app.containers[k], clean) \/ IsSubstring(clean, app.containers[k])
    \/ HasDatabase(app) /\ IsSubstring(app.database.container, clean)

Matching(clean) == {i \in DOMAIN roster : AppMatches(roster[i], clean)}
FirstOf(S) == CHOOSE i \in S : \A j \in S : i <= j

\* C25: for every raw container name and every roster, the container is
\* attributed to the first application in declaration order that matches
\* the cleaned name (a fragment is a substring of it, or it is a substring
\* of a fragment, or the database container name is a substring of it), and
\* to "unknown" when no application matches.
C25_AttributionFirstMatch ==
    docker.resolved.called =>
        LET clean == CleanName(docker.resolved.containerName)
        IN  IF Matching(clean) = {}
            THEN docker.resolved.application = "unknown"
            ELSE docker.resolved.application = roster[FirstOf(Matching(clean))].name

\* Two applications match a name that is a proper part of the first one's
\* fragment, and the first is returned.
C25_Witness ==
    /\ docker.resolved.called
    /\ Len(roster) = 2
    /\ Matching(CleanName(docker.resolved.containerName)) = {1, 2}
    /\ CleanName(docker.resolved.containerName) # << >>
    /\ \E k \in DOMAIN roster[1].containers :
            Len(roster[1].containers[k]) > Len(CleanName(docker.resolved.containerName))
    /\ docker.resolved.application = "app1"

FullMappers ==
    {i \in DOMAIN docker.details :
        docker.details[i].pc = "settled" /\ docker.details[i].error = "none"}
CpuDelta(st) == st.total_usage - st.pre_total_usage
SystemDelta(st) == st.system_cpu_usage - st.pre_system_cpu_usage
ExampleStats == [total_usage |-> 200, pre_total_usage |-> 100,
                 system_cpu_usage |-> 1200, pre_system_cpu_usage |-> 1000,
                 online_cpus |-> 4]

\* C26: for a container snapshot cpuPercent is cpuDelta / systemDelta *
\* onlineCpus * 100 when the system delta is positive (200 for the counters
\* 200, 100, 1200, 1000 on 4 CPUs, reported as 200.00), and is exactly 0,
\* not a negative number and not NaN, when the system delta is zero or
\* negative.
C26_CpuPercentClamped ==
    \A i \in FullMappers :
        LET m == docker.details[i]
        IN  /\ IsFinite(m.cpuPercent)
            /\ IF SystemDelta(m.stats) > 0
               THEN m.cpuPercent.num * SystemDelta(m.stats) =
                        CpuDelta(m.stats) * m.stats.online_cpus * 100 * m.cpuPercent.den
               ELSE m.cpuPercent.num = 0
            /\ m.stats = ExampleStats =>
                    m.record.cpuPercent = [num |-> 20000, den |-> 100]

\* One container with the counters of the example, and one whose system
\* delta is not positive while its CPU delta is not zero.
C26_Witness ==
    /\ \E i \in FullMappers :
            /\ docker.details[i].stats = ExampleStats
            /\ docker.details[i].record.cpuPercent = [num |-> 20000, den |-> 100]
    /\ \E i \in FullMappers :
            /\ SystemDelta(docker.details[i].stats) <= 0
            /\ CpuDelta(docker.details[i].stats) # 0
            /\ docker.details[i].cpuPercent = Rat(0)

\* C27: the first poll that observes an interface reports rx and tx rate 0
\* and seeds the cache with its counters; every later poll reports rate =
\* (current counter - cached counter) / seconds since the cached sample, and
\* then replaces the cache entry with the current counters.
C27_NetworkRate ==
    [][\A n \in NetTasks :
        ( /\ polls[n].pc = "wait"
          /\ polls'[n].pc = "done"
          /\ ~polls'[n].threw ) =>
            \A k \in DOMAIN polls'[n].interfaces :
                LET e == polls'[n].interfaces[k]
                    prev == previousStats[e.interface]
                    elapsed == millis - prev.timestamp
                IN  /\ IF prev.set
                       THEN /\ IsFinite(e.rxSpeed) /\ IsFinite(e.txSpeed)
                            /\ e.rxSpeed.num * elapsed =
                                    (e.rxBytes - prev.rx_bytes) * 1000 * e.rxSpeed.den
                            /\ e.txSpeed.num * elapsed =
                                    (e.txBytes - prev.tx_bytes) * 1000 * e.txSpeed.den
                       ELSE e.rxSpeed = Rat(0) /\ e.txSpeed = Rat(0)
                    /\ previousStats'[e.interface] =
                            [set |-> TRUE, rx_bytes |-> e.rxBytes,
                             tx_bytes |-> e.txBytes, timestamp |-> millis]]_vars

\* C28: a container poll is never failed by one container: when fetching
\* stats or metadata fails for some containers the poll still succeeds, with
\* exactly one record per listed container in listing order, a partial record
\* for each failing container and a full record for each other.
C28_PollDegradesPerContainer ==
    /\ (docker.pc = "done" /\ docker.threw) => docker.details = << >>
    /\ \A i \in DOMAIN docker.details : docker.details[i].pc # "rejected"
    /\ (docker.pc = "done" /\ ~docker.threw) =>
            /\ Len(docker.result) = Len(docker.details)
            /\ cachedData.docker.data = docker.result
            /\ \A i \in DOMAIN docker.details :
                    LET m == docker.details[i]
                        r == docker.result[i]
                    IN  /\ r.name = CleanName(m.raw)
                        /\ IF m.error = "none"
                           THEN /\ r.error = "none"
                                /\ r.application # ""
                                /\ r.cpuPercent = ToFixed(m.cpuPercent)
                           ELSE /\ r.error = "Could not fetch detailed stats"
                                /\ r.application = ""

\* A poll of two containers settled with one partial record, for the
\* container whose metadata fetch failed, followed by one full record.
C28_Witness ==
    /\ docker.pc = "done"
    /\ ~docker.threw
    /\ Len(docker.result) = 2
    /\ docker.details[1].error = "inspect"
    /\ docker.result[1].error # "none"
    /\ docker.result[2].error = "none"
    /\ docker.result[2].application = "app2"

\* C32: restoreBackup takes no backup before restoring and leaves the
\* artifacts alone: from the call to its return, whether it succeeds or
\* fails, none of its steps changes the set of artifacts on disk (names,
\* sizes, creation instants) or the directories, and it never runs the
\* backup or the retention cleanup.
C32_RestoreLeavesArtifacts ==
    [][\A t \in Tasks :
        (tasks'[t] # tasks[t] /\ tasks'[t].op = "restore") =>
            /\ files' = files
            /\ dirs' = dirs
            /\ tasks'[t].pc \in {"rs_access", "rs_exec", "done"}
            /\ tasks'[t].deleted = 0
            /\ tasks'[t].fx \subseteq {"access", "exec"}]_vars

\* A restore that ran its command to the end, with its artifact still there.
C32_Witness ==
    \E t \in Tasks :
        /\ tasks[t].op = "restore"
        /\ tasks[t].pc = "done"
        /\ tasks[t].result.success
        /\ "exec" \in tasks[t].fx
        /\ Exists(ArtifactPath(tasks[t]))
        /\ FileAt(ArtifactPath(tasks[t])).size > 0

\* C31: the scheduler has no overlap guard per application: while the
\* createBackup that a fire started for an application is still running (or
\* hung), a running trigger of the same application can fire into a free
\* callback (as long as the artifact bound leaves room); the fire starts a
\* second createBackup for the application and leaves the first as it is,
\* so that both run concurrently.
C31_NoOverlapGuard ==
    \A t \in Tasks :
        (tasks[t].op = "trigger" /\ tasks[t].pc \in RunningPcs \cup {"cb_hung"}) =>
            \A u \in Tasks \ {t} :
                (Idle(u) /\ Cardinality(files) < MaxTriggerFiles) =>
                    \A h \in DOMAIN handles :
                        (handles[h].running /\ handles[h].app = tasks[t].app) =>
                            ENABLED ( /\ Fire(h, u)
                                      /\ tasks'[u].op = "trigger"
                                      /\ tasks'[u].app = tasks[t].app
                                      /\ tasks'[u].pc = "cb_mkdir"
                                      /\ tasks'[t] = tasks[t] )

\* Two backups of one application, both started by fires, in progress at
\* the same time.
C31_Witness ==
    \E t, u \in Tasks :
        /\ t # u
        /\ tasks[t].op = "trigger" /\ tasks[u].op = "trigger"
        /\ tasks[t].app = tasks[u].app
        /\ tasks[t].pc \in {"cb_run", "cb_hung"}
        /\ tasks[u].pc \in {"cb_mkdir", "cb_exec"}
        /\ Len(handles) = 1

\* The names a view can be asked for: the roster and "unknown".
ViewNames == {roster[i].name : i \in DOMAIN roster} \cup {"unknown"}
ViewSize(appName) == Len(GetContainersByApplication(docker.result, appName))
RECURSIVE ViewTotal(_)
ViewTotal(S) ==
    IF S = {} THEN 0
    ELSE LET x == CHOOSE y \in S : TRUE IN ViewSize(x) + ViewTotal(S \ {x})

\* C33: every record a poll returns carries an application attribute that
\* is the name of a roster application or "unknown", so that the views of
\* the roster applications and of "unknown" together contain every polled
\* container exactly once.
C33_ViewsPartitionPoll ==
    (docker.pc = "done" /\ ~docker.threw) =>
        /\ \A i \in DOMAIN docker.result : docker.result[i].application \in ViewNames
        /\ ViewTotal(ViewNames) = Len(docker.result)

\* C39: the cpuPercent computed for a container is never negative, whatever
\* the current and previous CPU and system counters are, the case included
\* where the cumulative CPU counter is below its previous sample while the
\* system delta is positive.
C39_CpuPercentNeverNegative ==
    \A i \in FullMappers :
        /\ docker.details[i].cpuPercent.num * docker.details[i].cpuPercent.den >= 0
        /\ docker.details[i].record.cpuPercent.num >= 0

\* C34: whenever createBackup returns a success record, the artifact at the
\* returned path is on disk with the returned non-zero size at the moment of
\* the return, whatever the retention window of the application: the
\* cleanup run inside createBackup never deletes the artifact the call just
\* created.
C34_SuccessMeansArtifactOnDisk ==
    [][\A t \in Tasks :
        ( /\ tasks[t].op \in {"createBackup", "trigger"}
          /\ tasks[t].pc # "done"
          /\ tasks'[t].pc = "done"
          /\ tasks'[t].result.success ) =>
            /\ tasks'[t].result.size > 0
            /\ \E f \in files' :
                    /\ PathOf(f) = tasks'[t].result.file
                    /\ f.size = tasks'[t].result.size]_vars

\* C38: after any sequence of init, scheduleBackup and stopAll calls the
\* job table holds at most one job per application, and every trigger that
\* was created and not stopped has an entry in the job table.
C38_OneJobPerApplication ==
    /\ \A k, m \in DOMAIN jobs :
            jobs[k].application = jobs[m].application => k = m
    /\ \A h \in DOMAIN handles :
            handles[h].running =>
                \E k \in DOMAIN jobs :
                    jobs[k].job = h /\ jobs[k].application = handles[h].app

\* C37: a listBackups(app) that runs while a cleanup or a deleteBackup
\* removes an artifact of the application still returns an entry for every
\* artifact that is there throughout the call (here: still there when it
\* returns, as nothing is created meanwhile), so it never returns the empty
\* list while artifacts of the application exist; and a cleanup that returns
\* its count leaves no artifact that is expired under its cutoff.
C37_ListingSurvivesRemoval ==
    [][\A t \in Tasks :
        /\ ( /\ tasks[t].op = "list" /\ tasks[t].arg # ""
             /\ tasks[t].pc # "done" /\ tasks'[t].pc = "done" ) =>
                \A f \in files' :
                    f.app = tasks[t].arg =>
                        \E k \in DOMAIN tasks'[t].backups :
                            tasks'[t].backups[k].path = PathOf(f)
        /\ ( /\ tasks[t].op = "cleanup"
             /\ tasks[t].pc # "done" /\ tasks'[t].pc = "done"
             /\ tasks'[t].result.success ) =>
                \A f \in files' :
                    f.app = tasks[t].app => ~Expired(f.created, tasks'[t].cutoff)]_vars

\* A run of createBackup that has computed its destination and not settled.
Writing(t) ==
    /\ tasks[t].op \in {"createBackup", "trigger"}
    /\ tasks[t].pc \in {"cb_exec", "cb_run", "cb_hung", "cb_stat"}

\* C35: two createBackup invocations for the same application that are in
\* progress together (a manual request next to a scheduled one, or two
\* trigger fires) never have the same destination path.
C35_DistinctDestinations ==
    \A t \in Tasks, u \in Tasks :
        ( /\ t # u
          /\ Writing(t) /\ Writing(u)
          /\ tasks[t].app = tasks[u].app ) =>
                ArtifactPath(tasks[t]) # ArtifactPath(tasks[u])

\* The retention cleanup of a createBackup run, entered only after its own
\* artifact was verified non-empty.
InOwnCleanup(tk) ==
    /\ tk.op \in {"createBackup", "trigger"}
    /\ tk.pc \in {"cl_readdir", "cl_stat", "cl_unlink"}

\* C36: when two createBackup runs for one application are both in their
\* retention cleanup, each with a verified non-empty artifact, the one that
\* settles returns success.
C36_OverlappingCleanupsSucceed ==
    [][\A t \in Tasks, u \in Tasks :
        ( /\ t # u
          /\ InOwnCleanup(tasks[t]) /\ InOwnCleanup(tasks[u])
          /\ tasks[t].app = tasks[u].app
          /\ ArtifactPath(tasks[t]) # ArtifactPath(tasks[u])
          /\ tasks'[t].pc = "done" ) =>
                tasks'[t].result.success]_vars

====
